---- MODULE Spec2Model ----
(***************************************************************************)
(* The Wix external-database adapter over MySQL: the access gate, the      *)
(* request handlers with the SQL text and the positional parameters they   *)
(* build, and the query executor's connection life cycle.                  *)
(*                                                                         *)
(* Text is modelled character by character: a string is a sequence of      *)
(* one-character strings, so that escaping, keyword search and the         *)
(* database's reading of a statement are computed, not assumed.            *)
(***************************************************************************)
EXTENDS Integers, Sequences, FiniteSets, TLC

(***************************************************************************)
(* Text                                                                    *)
(***************************************************************************)

\* The characters of a string literal, as a sequence.
Chars(s) == [i \in 1..Len(s) |-> SubSeq(s, i, i)]

\* MySQL's identifier quote character (the backquote, U+0060).  A string
\* literal of this module cannot hold that character, so it is written ^
\* throughout; ^ is not otherwise part of the input alphabet.
BQ == "^"

LowerAlpha == Chars("abcdefghijklmnopqrstuvwxyz")
UpperAlpha == Chars("ABCDEFGHIJKLMNOPQRSTUVWXYZ")

\* String.prototype.toUpperCase, one character.
UpperChar(c) ==
    IF \E i \in 1..26 : LowerAlpha[i] = c
    THEN UpperAlpha[CHOOSE i \in 1..26 : LowerAlpha[i] = c]
    ELSE c

\* String.prototype.toLowerCase, one character.
LowerChar(c) ==
    IF \E i \in 1..26 : UpperAlpha[i] = c
    THEN LowerAlpha[CHOOSE i \in 1..26 : UpperAlpha[i] = c]
    ELSE c

toUpperCase(s) == [i \in 1..Len(s) |-> UpperChar(s[i])]
toLowerCase(s) == [i \in 1..Len(s) |-> LowerChar(s[i])]

\* String.prototype.includes: sub occurs in s as a contiguous substring.
includes(s, sub) ==
    \E i \in 1..(Len(s) - Len(sub) + 1) : SubSeq(s, i, i + Len(sub) - 1) = sub

\* Array.prototype.join over a sequence of strings.
RECURSIVE join(_, _)
join(parts, sep) ==
    IF Len(parts) = 0 THEN <<>>
    ELSE IF Len(parts) = 1 THEN parts[1]
    ELSE parts[1] \o sep \o join(Tail(parts), sep)

\* The decimal digits of a natural number (Number.prototype.toString).
RECURSIVE NumToChars(_)
NumToChars(n) ==
    IF n < 10 THEN <<Chars("0123456789")[n + 1]>>
    ELSE NumToChars(n \div 10) \o <<Chars("0123456789")[(n % 10) + 1]>>

(***************************************************************************)
(* JavaScript values, as they arrive in a parsed JSON body                 *)
(***************************************************************************)

Undef  == [k |-> "undef"]
Null   == [k |-> "null"]
Bool(b) == [k |-> "bool", v |-> b]
Num(n) == [k |-> "num", v |-> n]
StrC(cs) == [k |-> "str", v |-> cs]
Str(s) == StrC(Chars(s))
\* An array: the sequence of its elements.
Arr(xs) == [k |-> "arr", v |-> xs]
\* An object: its own enumerable entries <<key, value>> in property order.
Obj(es) == [k |-> "obj", v |-> es]

\* ToBoolean: undefined, null, "", 0 and false are falsy.
Truthy(x) ==
    CASE x.k = "undef" -> FALSE
      [] x.k = "null"  -> FALSE
      [] x.k = "bool"  -> x.v
      [] x.k = "num"   -> x.v # 0
      [] x.k = "str"   -> Len(x.v) > 0
      [] OTHER         -> TRUE

\* The typeof operator.
typeof(x) ==
    CASE x.k = "undef" -> "undefined"
      [] x.k = "bool"  -> "boolean"
      [] x.k = "num"   -> "number"
      [] x.k = "str"   -> "string"
      [] OTHER         -> "object"

isArray(x) == x.k = "arr"

\* String(x).
RECURSIVE ToStr(_)
ToStr(x) ==
    CASE x.k = "undef" -> Chars("undefined")
      [] x.k = "null"  -> Chars("null")
      [] x.k = "bool"  -> IF x.v THEN Chars("true") ELSE Chars("false")
      [] x.k = "num"   -> NumToChars(x.v)
      [] x.k = "str"   -> x.v
      [] x.k = "arr"   -> join([i \in 1..Len(x.v) |->
                                  IF x.v[i].k \in {"undef", "null"} THEN <<>>
                                  ELSE ToStr(x.v[i])], <<",">>)
      [] OTHER         -> Chars("[object Object]")

\* Object.entries of a value that is neither undefined nor null: the own
\* entries of an object, the indexed elements of an array or the indexed
\* characters of a string, nothing for a number or a boolean.
Entries(x) ==
    CASE x.k = "obj" -> x.v
      [] x.k = "arr" -> [i \in 1..Len(x.v) |-> <<NumToChars(i - 1), x.v[i]>>]
      [] x.k = "str" -> [i \in 1..Len(x.v) |-> <<NumToChars(i - 1), StrC(<<x.v[i]>>)>>]
      [] OTHER       -> <<>>

\* Object.keys and Object.values, in the order of Object.entries.
Keys(x)   == [i \in 1..Len(Entries(x)) |-> Entries(x)[i][1]]
Values(x) == [i \in 1..Len(Entries(x)) |-> Entries(x)[i][2]]

\* Array.prototype.indexOf on a list of keys, 0-based, -1 when absent.
indexOf(ks, key) ==
    IF \E i \in 1..Len(ks) : ks[i] = key
    THEN (CHOOSE i \in 1..Len(ks) : ks[i] = key /\ \A j \in 1..(i - 1) : ks[j] # key) - 1
    ELSE -1

\* Property read x[key] of an own data property; undefined when absent, and
\* for every key of a value that is not an object.
GetC(x, key) ==
    IF x.k = "obj" /\ indexOf(Keys(x), key) >= 0
    THEN Values(x)[indexOf(Keys(x), key) + 1]
    ELSE Undef
Get(x, key) == GetC(x, Chars(key))

(***************************************************************************)
(* mysql.escapeId and the statement text                                   *)
(***************************************************************************)

\* String.prototype.replace(/c/g, by): every character c replaced by `by`.
RECURSIVE replaceAll(_, _, _)
replaceAll(s, c, by) ==
    IF Len(s) = 0 THEN <<>>
    ELSE (IF s[1] = c THEN by ELSE <<s[1]>>) \o replaceAll(Tail(s), c, by)

\* mysql.escapeId(val): a value that is not an array becomes its string with
\* the quote character doubled and every dot turned into quote-dot-quote, the
\* whole in quotes; an array is escaped element by element, joined by ", ".
\* An escaping that quotes the name but leaves a quote inside it single.
escapeIdUndoubled(val) == <<BQ>> \o ToStr(val) \o <<BQ>>

RECURSIVE escapeId(_)
escapeId(val) ==
    IF isArray(val)
    THEN join([i \in 1..Len(val.v) |-> escapeId(val.v[i])], Chars(", "))
    ELSE <<BQ>>
         \o replaceAll(replaceAll(ToStr(val), BQ, <<BQ, BQ>>), ".", <<BQ, ".", BQ>>)
         \o <<BQ>>

(***************************************************************************)
(* The server's reading of a statement text: its tokens.  A quoted         *)
(* identifier runs from a quote to the next quote that is not doubled, and *)
(* stands for the name with doubled quotes undone; a question mark outside *)
(* quotes is a placeholder; the other characters form punctuation and      *)
(* words.                                                                  *)
(***************************************************************************)

Punct == {"(", ")", ",", "=", "*", "."}

TokId(name) == [k |-> "id", v |-> name]
TokPh       == [k |-> "ph"]
TokSym(c)   == [k |-> "sym", v |-> c]
TokWord(w)  == [k |-> "word", v |-> w]
TokBad      == [k |-> "bad"]

\* The position of the quote closing the identifier whose text starts at i,
\* 0 when the text ends first.
RECURSIVE QuoteEnd(_, _)
QuoteEnd(s, i) ==
    IF i > Len(s) THEN 0
    ELSE IF s[i] = BQ
         THEN IF i < Len(s) /\ s[i + 1] = BQ THEN QuoteEnd(s, i + 2) ELSE i
         ELSE QuoteEnd(s, i + 1)

\* The name a quoted text stands for: each doubled quote is one quote.
RECURSIVE Unquote(_)
Unquote(s) ==
    IF Len(s) = 0 THEN <<>>
    ELSE IF s[1] = BQ /\ Len(s) > 1 /\ s[2] = BQ
         THEN <<BQ>> \o Unquote(SubSeq(s, 3, Len(s)))
         ELSE <<s[1]>> \o Unquote(Tail(s))

\* The last position of the word starting at i.
RECURSIVE WordEnd(_, _)
WordEnd(s, i) ==
    IF i < Len(s) /\ s[i + 1] \notin (Punct \cup {" ", "?", BQ})
    THEN WordEnd(s, i + 1)
    ELSE i

RECURSIVE LexFrom(_, _)
LexFrom(s, i) ==
    IF i > Len(s) THEN <<>>
    ELSE IF s[i] = " " THEN LexFrom(s, i + 1)
    ELSE IF s[i] = BQ
         THEN LET e == QuoteEnd(s, i + 1)
              IN  IF e = 0 THEN <<TokBad>>
                  ELSE <<TokId(Unquote(SubSeq(s, i + 1, e - 1)))>> \o LexFrom(s, e + 1)
    ELSE IF s[i] = "?" THEN <<TokPh>> \o LexFrom(s, i + 1)
    ELSE IF s[i] \in Punct THEN <<TokSym(s[i])>> \o LexFrom(s, i + 1)
    ELSE LET e == WordEnd(s, i)
         IN  <<TokWord(SubSeq(s, i, e))>> \o LexFrom(s, e + 1)

Lex(s) == LexFrom(s, 1)

\* The number of placeholders of a statement text.
Placeholders(s) == Cardinality({i \in 1..Len(Lex(s)) : Lex(s)[i].k = "ph"})

\* The names of the quoted identifiers of a statement text, in order.
RECURSIVE IdsOf(_)
IdsOf(toks) ==
    IF Len(toks) = 0 THEN <<>>
    ELSE (IF toks[1].k = "id" THEN <<toks[1].v>> ELSE <<>>) \o IdsOf(Tail(toks))

(***************************************************************************)
(* Requests, responses and what a handler does next                        *)
(***************************************************************************)

\* The two source trees of the repository: the current server and the copy
\* kept under "WIX - HOSTINGER - 1.0".
Trees == {"current", "hostinger"}

\* A request: its route, the route parameters (req.params) and the fields of
\* the parsed JSON body the handlers read.  A field the body does not carry is
\* undefined.
NoRequest ==
    [ep |-> "none", secretKey |-> Undef, installationId |-> Undef, sql |-> Undef,
     schemaIds |-> Undef, table |-> Undef, id |-> Undef, filter |-> Undef,
     limit |-> Undef, offset |-> Undef, collectionName |-> Undef, item |-> Undef,
     data |-> Undef, itemId |-> Undef, sort |-> Undef, skip |-> Undef,
     returnTotalCount |-> Undef]

\* An Error object: its message.
Err(msg) == [k |-> "err", v |-> Chars(msg)]

\* res.json(body): the body as serialised, where a property whose value is
\* undefined is left out.
RECURSIVE dropUndefined(_)
dropUndefined(es) ==
    IF Len(es) = 0 THEN <<>>
    ELSE (IF es[1][2].k = "undef" THEN <<>> ELSE <<es[1]>>) \o dropUndefined(Tail(es))

json(body) == IF body.k = "obj" THEN Obj(dropUndefined(body.v)) ELSE body

\* Whether a response body carries the property.
Has(body, key) == body.k = "obj" /\ indexOf(Keys(body), Chars(key)) >= 0

\* An object literal of one, two or three properties.
Obj1(k1, v1) == Obj(<< <<Chars(k1), v1>> >>)
Obj2(k1, v1, k2, v2) == Obj(<< <<Chars(k1), v1>>, <<Chars(k2), v2>> >>)
Obj3(k1, v1, k2, v2, k3, v3) ==
    Obj(<< <<Chars(k1), v1>>, <<Chars(k2), v2>>, <<Chars(k3), v3>> >>)

\* What a handler does when it stops running: it sends a response and ends,
\* it awaits executeQuery(sql, params) keeping its local variables, or an
\* exception leaves its try block.
Reply(status, body) == [t |-> "reply", status |-> status, body |-> json(body)]
Call(sql, params, locals) ==
    [t |-> "call", sql |-> sql, params |-> params, loc |-> locals]
Throw(e) == [t |-> "throw", e |-> e]

\* res.status(s).json({error: message}).  The messages are the source's, with
\* their accented letters written unaccented.
ReplyError(status, msg) == Reply(status, Obj1("error", Str(msg)))

\* A catch block that answers s with a fixed message, and one that also
\* returns the exception's message as details.
CatchNothing(eff, msg) == eff
CatchGeneric(eff, msg) ==
    IF eff.t = "throw" THEN ReplyError(500, msg) ELSE eff
CatchDetails(eff, msg) ==
    IF eff.t = "throw"
    THEN Reply(500, Obj2("error", Str(msg), "details", StrC(eff.e.v)))
    ELSE eff
\* The catch block of the two raw-SQL routes: 400 with the exception's message.
CatchMessage(eff) ==
    IF eff.t = "throw" THEN Reply(400, Obj1("error", StrC(eff.e.v))) ELSE eff

\* The outcome of an awaited executeQuery: the value returned or the exception.
Returned(v) == [t |-> "ret", v |-> v]
Threw(e)    == [t |-> "throw", e |-> e]

NoLocals == [step |-> 0]

(***************************************************************************)
(* POST /api/query/provision                                               *)
(***************************************************************************)

provisionBody(b) ==
    IF ~Truthy(b.installationId)
    THEN ReplyError(400, "installationId nao fornecido")
    ELSE Reply(200, Obj3("status", Str("success"),
                         "instanceId", b.installationId,
                         "message", Str("Provisionamento concluido com sucesso")))

(***************************************************************************)
(* validateQuery and the raw-SQL routes GET /api/query, POST /api/update   *)
(***************************************************************************)

\* A denylist that lacks its last keyword.
forbiddenKeywordsNoTruncate == <<Chars("DROP"), Chars("DELETE"), Chars("ALTER")>>
forbiddenKeywords == <<Chars("DROP"), Chars("DELETE"), Chars("ALTER"), Chars("TRUNCATE")>>

\* validateQuery(sql): the exception it throws, or "ok" when it returns.
validateQuery(sql) ==
    IF ~Truthy(sql) \/ typeof(sql) # "string"
    THEN Throw(Err("Consulta SQL invalida"))
    ELSE LET upperCaseSql == toUpperCase(sql.v)
             hits == {i \in 1..Len(forbiddenKeywords) :
                         includes(upperCaseSql, forbiddenKeywords[i])}
         IN  IF hits # {}
             THEN LET first == CHOOSE i \in hits : \A j \in hits : i <= j
                  IN  Throw([k |-> "err",
                             v |-> Chars("Uso da palavra-chave '") \o forbiddenKeywords[first]
                                   \o Chars("' nao permitido")])
             ELSE [t |-> "ok"]

\* Both raw-SQL handlers up to their await: executeQuery(sql), binds defaulted
\* to the empty list.
rawSqlBody(b) ==
    IF ~Truthy(b.sql) THEN ReplyError(400, "Consulta SQL invalida")
    ELSE IF validateQuery(b.sql).t = "throw" THEN validateQuery(b.sql)
    ELSE Call(b.sql.v, <<>>, NoLocals)

apiQueryAfter(out) ==
    IF out.t = "throw" THEN Throw(out.e) ELSE Reply(200, Obj1("rows", out.v))

apiUpdateAfter(out) ==
    IF out.t = "throw" THEN Throw(out.e)
    ELSE Reply(200, Obj1("message", Str("Operacao realizada com sucesso")))

(***************************************************************************)
(* The statement builders of the structured routes                         *)
(***************************************************************************)

MsgInternal == "Erro interno do servidor"
MsgNoCollection == "Nome da colecao e obrigatorio"

\* Object.entries(filter).map(([key, value]) => escapeId(key) + " = ?")
\*                       .join(" AND ")
\* (conditionsInlined is the builder that writes each value into the text.)
conditionsInlined(filter) ==
    join([i \in 1..Len(Keys(filter)) |->
            escapeId(StrC(Keys(filter)[i])) \o Chars(" = '") \o ToStr(Values(filter)[i])
            \o Chars("'")],
         Chars(" AND "))
conditions(filter) ==
    join([i \in 1..Len(Keys(filter)) |-> escapeId(StrC(Keys(filter)[i])) \o Chars(" = ?")],
         Chars(" AND "))

\* POST /api/items/find, up to its await.
itemsFindBody(b) ==
    LET escapedTable == escapeId(b.table)
        sql0 == Chars("SELECT * FROM ") \o escapedTable
        sql1 == IF Truthy(b.filter)
                THEN sql0 \o Chars(" WHERE ") \o conditions(b.filter) ELSE sql0
        params1 == IF Truthy(b.filter) THEN Values(b.filter) ELSE <<>>
        sql2 == IF Truthy(b.limit) THEN sql1 \o Chars(" LIMIT ?") ELSE sql1
        params2 == IF Truthy(b.limit) THEN Append(params1, b.limit) ELSE params1
        sql3 == IF Truthy(b.offset) THEN sql2 \o Chars(" OFFSET ?") ELSE sql2
        params3 == IF Truthy(b.offset) THEN Append(params2, b.offset) ELSE params2
    IN  Call(sql3, params3, NoLocals)

itemsFindAfter(out) ==
    IF out.t = "throw" THEN Throw(out.e) ELSE Reply(200, Obj1("items", out.v))

\* POST /api/query/data/count, up to its await.
dataCountBody(b) ==
    IF ~Truthy(b.collectionName) THEN ReplyError(400, MsgNoCollection)
    ELSE LET escapedTable == escapeId(b.collectionName)
             sql0 == Chars("SELECT COUNT(*) AS totalCount FROM ") \o escapedTable
             filtered == Truthy(b.filter) /\ Len(Keys(b.filter)) > 0
         IN  IF filtered
             THEN Call(sql0 \o Chars(" WHERE ") \o conditions(b.filter),
                       Values(b.filter), NoLocals)
             ELSE Call(sql0, <<>>, NoLocals)

\* result[0].totalCount: reading a property of undefined is a TypeError.
firstTotalCount(result) ==
    IF isArray(result) /\ Len(result.v) > 0 /\ result.v[1].k \notin {"undef", "null"}
    THEN Returned(Get(result.v[1], "totalCount"))
    ELSE Threw(Err("Cannot read properties of undefined (reading 'totalCount')"))

dataCountAfter(out) ==
    IF out.t = "throw" THEN Throw(out.e)
    ELSE IF firstTotalCount(out.v).t = "throw" THEN Throw(firstTotalCount(out.v).e)
    ELSE Reply(200, Obj1("totalCount", firstTotalCount(out.v).v))

\* GET /api/items/:table/:id, up to its await.
itemsGetBody(b) ==
    Call(Chars("SELECT * FROM ") \o escapeId(b.table) \o Chars(" WHERE _id = ?"),
         <<b.id>>, NoLocals)

\* result.length of what executeQuery returned: the number of rows of an
\* array, undefined for a result header.
itemsGetAfter(out) ==
    IF out.t = "throw" THEN Throw(out.e)
    ELSE IF ~Truthy(out.v) \/ (isArray(out.v) /\ Len(out.v.v) = 0)
    THEN ReplyError(404, "Item nao encontrado")
    ELSE Reply(200, Obj1("item", IF isArray(out.v) THEN out.v.v[1] ELSE Undef))

\* The three lists of data/insert, filled by one loop over
\* Object.entries(payload): fields, placeholders and values.
\* (insertValuesReversed is a value list filled in the opposite order.)
insertFields(payload) ==
    [i \in 1..Len(Entries(payload)) |-> escapeId(StrC(Entries(payload)[i][1]))]
insertPlaceholders(payload) == [i \in 1..Len(Entries(payload)) |-> <<"?">>]
insertValuesReversed(payload) ==
    [i \in 1..Len(Entries(payload)) |-> Entries(payload)[Len(Entries(payload)) + 1 - i][2]]
insertValues(payload) == [i \in 1..Len(Entries(payload)) |-> Entries(payload)[i][2]]

\* POST /api/query/data/insert, up to its await.
dataInsertBody(b) ==
    IF ~Truthy(b.collectionName) \/ typeof(b.collectionName) # "string"
    THEN ReplyError(400, "Nome da colecao e obrigatorio e deve ser uma string.")
    ELSE LET payload == IF Truthy(b.item) THEN b.item ELSE b.data
         IN  IF ~Truthy(payload) \/ typeof(payload) # "object" \/ Len(Keys(payload)) = 0
             THEN ReplyError(400,
                    "Os dados a serem inseridos sao obrigatorios e devem ser um objeto nao vazio.")
             ELSE LET escapedTable == escapeId(b.collectionName)
                      sql == Chars("INSERT INTO ") \o escapedTable \o Chars(" (")
                             \o join(insertFields(payload), Chars(", "))
                             \o Chars(") VALUES (")
                             \o join(insertPlaceholders(payload), Chars(", ")) \o Chars(")")
                  IN  Call(sql, insertValues(payload), NoLocals)

\* insertedId = result.insertId || null; _id: insertedId ? String(insertedId) : null
dataInsertAfter(out) ==
    IF out.t = "throw" THEN Throw(out.e)
    ELSE LET insertedId == IF Truthy(Get(out.v, "insertId"))
                           THEN Get(out.v, "insertId") ELSE Null
         IN  Reply(200, Obj2("_id", IF Truthy(insertedId) THEN StrC(ToStr(insertedId)) ELSE Null,
                             "message", Str("Item inserido com sucesso.")))

(***************************************************************************)
(* POST /api/query/data/find                                               *)
(***************************************************************************)

\* A Date object, as the driver returns for a date column: its ISO text.
Date(iso) == [k |-> "date", v |-> Chars(iso)]

\* obj[key] = val and delete obj[key] on a copy of the entries.
setProp(es, key, val) ==
    IF indexOf([i \in 1..Len(es) |-> es[i][1]], key) >= 0
    THEN [i \in 1..Len(es) |-> IF es[i][1] = key THEN <<key, val>> ELSE es[i]]
    ELSE Append(es, <<key, val>>)
deleteProp(es, key) == SelectSeq(es, LAMBDA e : e[1] # key)

\* The sort clause: sort.map(({fieldName, order}) => escapeId(fieldName) + " "
\* + (order === 'ASC' ? 'ASC' : 'DESC')).join(", ").  map exists on arrays
\* only, and destructuring undefined or null throws.
sortApplies(sort) == Truthy(sort) /\ sort.k \in {"arr", "str"} /\ Len(sort.v) > 0
sortThrows(sort) ==
    sortApplies(sort) /\
    (~isArray(sort) \/ \E i \in 1..Len(sort.v) : sort.v[i].k \in {"undef", "null"})
\* order === 'ASC' ? 'ASC' : 'DESC'.  (orderTokenAscendingByDefault is the
\* choice that gives DESC for 'DESC' alone.)
orderTokenAscendingByDefault(order) ==
    IF order = Str("DESC") THEN Chars("DESC") ELSE Chars("ASC")
orderToken(order) == IF order = Str("ASC") THEN Chars("ASC") ELSE Chars("DESC")
sortConditions(sort) ==
    join([i \in 1..Len(sort.v) |->
            escapeId(Get(sort.v[i], "fieldName")) \o Chars(" ")
            \o orderToken(Get(sort.v[i], "order"))],
         Chars(", "))

\* The filter clause of the current tree: one structured clause.  The value
\* is "reject" with the message, or the text and parameters to append.
structuredFilter(filter) ==
    LET operator == Get(filter, "operator")
        fieldName == Get(filter, "fieldName")
        value == Get(filter, "value")
    IN  IF ~(Truthy(filter) /\ Len(Keys(filter)) > 0)
        THEN [t |-> "ok", sql |-> <<>>, params |-> <<>>]
        ELSE IF operator \notin {Str("$hasSome"), Str("$eq")}
        THEN [t |-> "reject", msg |-> "Operador de filtro invalido"]
        ELSE IF operator = Str("$hasSome")
        THEN IF ~isArray(value)
             THEN [t |-> "reject",
                   msg |-> "O valor do filtro deve ser um array para o operador $hasSome"]
             ELSE [t |-> "ok",
                   sql |-> Chars(" WHERE ") \o escapeId(fieldName) \o Chars(" IN (")
                           \o join([i \in 1..Len(value.v) |-> <<"?">>], <<",">>) \o Chars(")"),
                   params |-> value.v]
        ELSE [t |-> "ok",
              sql |-> Chars(" WHERE ") \o escapeId(fieldName) \o Chars(" = ?"),
              params |-> <<value>>]

\* The filter clause of the hostinger tree: the flat mapping.
flatFilter(filter) ==
    IF Truthy(filter) /\ Len(Keys(filter)) > 0
    THEN [t |-> "ok", sql |-> Chars(" WHERE ") \o conditions(filter),
          params |-> Values(filter)]
    ELSE [t |-> "ok", sql |-> <<>>, params |-> <<>>]

\* typeof skip === 'number' && typeof limit === 'number', the same test in
\* both trees.  (paginatesOnEither is the test with || in place of &&.)
paginatesOnEither(skip, limit) == typeof(skip) = "number" \/ typeof(limit) = "number"
paginates(skip, limit) == typeof(skip) = "number" /\ typeof(limit) = "number"

\* The handler up to its first await, in either tree.
dataFindBody(tree, b) ==
    IF ~Truthy(b.collectionName) THEN ReplyError(400, MsgNoCollection)
    ELSE LET escapedTable == escapeId(b.collectionName)
             f == IF tree = "current" THEN structuredFilter(b.filter)
                  ELSE flatFilter(b.filter)
             paged == paginates(b.skip, b.limit)
         IN  IF f.t = "reject" THEN ReplyError(400, f.msg)
             ELSE IF sortThrows(b.sort) THEN Throw(Err("sort.map is not a function"))
             ELSE Call(Chars("SELECT * FROM ") \o escapedTable \o f.sql
                       \o (IF sortApplies(b.sort)
                           THEN Chars(" ORDER BY ") \o sortConditions(b.sort) ELSE <<>>)
                       \o (IF paged THEN Chars(" LIMIT ?, ?") ELSE <<>>),
                       f.params \o (IF paged THEN <<b.skip, b.limit>> ELSE <<>>),
                       [step |-> 1])

\* items.map of the current tree: date_added kept only when it is a Date.
formatItemCurrent(item) ==
    IF Get(item, "date_added").k = "date"
    THEN Obj(setProp(Entries(item), Chars("date_added"),
                     Obj1("$date", StrC(Get(item, "date_added").v))))
    ELSE Obj(deleteProp(Entries(item), Chars("date_added")))

\* items.map of the hostinger tree: a truthy date_added must have toISOString.
formatThrowsHostinger(items) ==
    \E i \in 1..Len(items) :
        Truthy(Get(items[i], "date_added")) /\ Get(items[i], "date_added").k # "date"
formatItemHostinger(item) ==
    IF Truthy(Get(item, "date_added"))
    THEN Obj(setProp(Entries(item), Chars("date_added"),
                     Obj1("$date", StrC(Get(item, "date_added").v))))
    ELSE item

\* The response once the items, and the count when asked for, are known.
dataFindFinish(tree, b, items, totalCount) ==
    IF tree = "hostinger" /\ formatThrowsHostinger(items.v)
    THEN Throw(Err("formattedItem.date_added.toISOString is not a function"))
    ELSE LET formattedItems ==
                 Arr([i \in 1..Len(items.v) |->
                        IF tree = "current" THEN formatItemCurrent(items.v[i])
                        ELSE formatItemHostinger(items.v[i])])
         IN  IF Truthy(b.returnTotalCount)
             THEN Reply(200, Obj2("items", formattedItems, "totalCount", totalCount))
             ELSE Reply(200, Obj1("items", formattedItems))

\* const countSql: the statement of the separate count query.  (One that
\* reads the rows again is countSqlRereadingRows.)
countSqlRereadingRows(escapedTable) == Chars("SELECT * FROM ") \o escapedTable
countSql(escapedTable) == Chars("SELECT COUNT(*) AS totalCount FROM ") \o escapedTable

\* The handler after an await: locals.step tells which query was awaited.
dataFindAfter(tree, b, locals, out) ==
    IF out.t = "throw" THEN Throw(out.e)
    ELSE IF locals.step = 1
    THEN IF tree = "current" /\ (~isArray(out.v) \/ Len(out.v.v) = 0)
         THEN Reply(200, Obj1("items", Arr(<<>>)))
         ELSE IF tree = "hostinger" /\ ~isArray(out.v)
         THEN ReplyError(500, "Erro ao buscar itens: resultado invalido")
         ELSE IF Truthy(b.returnTotalCount)
         THEN Call(countSql(escapeId(b.collectionName)),
                   <<>>, [step |-> 2, items |-> out.v])
         ELSE dataFindFinish(tree, b, out.v, Null)
    ELSE IF firstTotalCount(out.v).t = "throw" THEN Throw(firstTotalCount(out.v).e)
    ELSE dataFindFinish(tree, b, locals.items, firstTotalCount(out.v).v)

(***************************************************************************)
(* POST /api/query/data/update and POST /api/query/data/remove             *)
(***************************************************************************)

\* Array.prototype.filter((_, index) => index !== at) with a 0-based index;
\* nothing is removed when at is -1.  (withoutNone is a filter that keeps
\* every element.)
withoutNone(xs, at) == xs
withoutIndex(xs, at) ==
    [i \in 1..(IF at >= 0 /\ at < Len(xs) THEN Len(xs) - 1 ELSE Len(xs)) |->
        IF at >= 0 /\ i > at THEN xs[i + 1] ELSE xs[i]]

\* POST /api/query/data/update, up to its await.
dataUpdateBody(b) ==
    IF ~Truthy(b.collectionName) THEN ReplyError(400, MsgNoCollection)
    ELSE IF ~Truthy(b.item) \/ ~Truthy(Get(b.item, "_id"))
    THEN ReplyError(400, "Item invalido ou ID ausente")
    ELSE LET escapedTable == escapeId(b.collectionName)
             kept == SelectSeq(Keys(b.item), LAMBDA key : key # Chars("_id"))
             updateFields ==
                 join([i \in 1..Len(kept) |-> escapeId(StrC(kept[i])) \o Chars(" = ?")],
                      Chars(", "))
         IN  IF Len(updateFields) = 0
             THEN ReplyError(400, "Nenhum campo para atualizar")
             ELSE Call(Chars("UPDATE ") \o escapedTable \o Chars(" SET ") \o updateFields
                       \o Chars(" WHERE _id = ?"),
                       Append(withoutIndex(Values(b.item), indexOf(Keys(b.item), Chars("_id"))),
                              Get(b.item, "_id")),
                       NoLocals)

\* POST /api/query/data/remove, up to its await.
dataRemoveBody(b) ==
    IF ~Truthy(b.collectionName) THEN ReplyError(400, MsgNoCollection)
    ELSE IF ~Truthy(b.itemId) THEN ReplyError(400, "ID do item e obrigatorio")
    ELSE Call(Chars("DELETE FROM ") \o escapeId(b.collectionName) \o Chars(" WHERE _id = ?"),
              <<b.itemId>>, NoLocals)

\* Both handlers after their await: result.affectedRows === 0 is not found.
affectedAfter(out, msg) ==
    IF out.t = "throw" THEN Throw(out.e)
    ELSE IF Get(out.v, "affectedRows") = Num(0)
    THEN ReplyError(404, "Registro nao encontrado")
    ELSE Reply(200, Obj2("message", Str(msg), "affectedRows", Get(out.v, "affectedRows")))

dataUpdateAfter(out) == affectedAfter(out, "Registro atualizado com sucesso")
dataRemoveAfter(out) == affectedAfter(out, "Registro removido com sucesso")

(***************************************************************************)
(* The schema mapper and the two schema routes                             *)
(***************************************************************************)

\* mapMySQLTypeToWixType.  The file declares the function twice; the later
\* declaration is the one in force for every caller.
mapMySQLTypeToWixType(mysqlTypeIn) ==
    LET mysqlType == toLowerCase(mysqlTypeIn)
    IN  IF includes(mysqlType, Chars("int")) THEN "number"
        ELSE IF includes(mysqlType, Chars("varchar")) \/ includes(mysqlType, Chars("text"))
                \/ includes(mysqlType, Chars("char")) THEN "text"
        ELSE IF includes(mysqlType, Chars("date")) \/ includes(mysqlType, Chars("time"))
                \/ includes(mysqlType, Chars("datetime")) THEN "datetime"
        ELSE IF includes(mysqlType, Chars("float")) \/ includes(mysqlType, Chars("double"))
                \/ includes(mysqlType, Chars("decimal")) THEN "number"
        ELSE IF includes(mysqlType, Chars("bool")) THEN "boolean"
        ELSE "any"

\* x || '' for a column property.
orEmpty(x) == IF Truthy(x) THEN x ELSE Str("")

StrList(names) == Arr([i \in 1..Len(names) |-> Str(names[i])])
OperatorsBase ==
    StrList(<<"eq", "lt", "gt", "hasSome", "and", "lte", "gte", "or", "not", "ne">>)
OperatorsText ==
    StrList(<<"eq", "lt", "gt", "hasSome", "and", "lte", "gte", "or", "not", "ne",
              "startsWith", "endsWith">>)
AllowedOperations == StrList(<<"get", "find", "count", "update", "insert", "remove">>)

\* The fields object of schemas/find: _id and _owner first, then one entry
\* per column under the column's own name.
fixedField(name) ==
    Obj3("displayName", Str(name), "type", Str("text"), "queryOperators", OperatorsText)
RECURSIVE fieldsFind(_, _)
fieldsFind(fields, columns) ==
    IF Len(columns) = 0 THEN fields
    ELSE LET column == columns[1]
             fieldName == orEmpty(Get(column, "Field"))
             fieldType == mapMySQLTypeToWixType(ToStr(orEmpty(Get(column, "Type"))))
             isRequired == Get(column, "Null") = Str("NO")
         IN  fieldsFind(setProp(fields, ToStr(fieldName),
                            Obj(<< <<Chars("displayName"), fieldName>>,
                                   <<Chars("type"), Str(fieldType)>>,
                                   <<Chars("queryOperators"), OperatorsText>>,
                                   <<Chars("required"), Bool(isRequired)>> >>)),
                        Tail(columns))

\* The fields object of schemas/list: a primary-key column is entered as _id.
RECURSIVE fieldsList(_, _)
fieldsList(fields, columns) ==
    IF Len(columns) = 0 THEN fields
    ELSE LET column == columns[1]
             fieldName == orEmpty(Get(column, "Field"))
             fieldType == mapMySQLTypeToWixType(ToStr(orEmpty(Get(column, "Type"))))
             isRequired == Get(column, "Null") = Str("NO")
             isUnique == Get(column, "Key") = Str("PRI") \/ Get(column, "Key") = Str("UNI")
             queryOperators == IF fieldType = "text" THEN OperatorsText ELSE OperatorsBase
             finalFieldName == IF Get(column, "Key") = Str("PRI") THEN Str("_id") ELSE fieldName
         IN  fieldsList(setProp(fields, ToStr(finalFieldName),
                            Obj(<< <<Chars("displayName"), fieldName>>,
                                   <<Chars("type"), Str(fieldType)>>,
                                   <<Chars("required"), Bool(isRequired)>>,
                                   <<Chars("unique"), Bool(isUnique)>>,
                                   <<Chars("queryOperators"), queryOperators>> >>)),
                        Tail(columns))

\* The schema object pushed for one table.
schemaOf(table, fields) ==
    Obj(<< <<Chars("displayName"), table>>, <<Chars("id"), table>>,
           <<Chars("allowedOperations"), AllowedOperations>>,
           <<Chars("maxPageSize"), Num(50)>>, <<Chars("ttl"), Num(3600)>>,
           <<Chars("fields"), Obj(fields)>> >>)

\* process.env.DB_NAME, which names the column of a SHOW TABLES row.
DbName == Chars("wix")

DescribeSql(table) == Chars("DESCRIBE ") \o escapeId(table)

\* POST /api/query/schemas/find, up to its first await.
schemasFindBody(b) ==
    IF ~isArray(b.schemaIds) \/ Len(b.schemaIds.v) = 0
    THEN ReplyError(400, "Lista de schemaIds nao fornecida ou vazia")
    ELSE Call(DescribeSql(b.schemaIds.v[1]), <<>>, [step |-> 1, i |-> 1, schemas |-> <<>>])

\* One turn of its loop: the awaited DESCRIBE of table i has returned.  A
\* result that is not an array is skipped.
schemasFindAfter(b, locals, out) ==
    IF out.t = "throw" THEN Throw(out.e)
    ELSE LET table == b.schemaIds.v[locals.i]
             initial == << <<Chars("_id"), fixedField("_id")>>,
                           <<Chars("_owner"), fixedField("_owner")>> >>
             schemas == IF isArray(out.v)
                        THEN Append(locals.schemas, schemaOf(table, fieldsFind(initial, out.v.v)))
                        ELSE locals.schemas
         IN  IF locals.i < Len(b.schemaIds.v)
             THEN Call(DescribeSql(b.schemaIds.v[locals.i + 1]), <<>>,
                       [step |-> 1, i |-> locals.i + 1, schemas |-> schemas])
             ELSE Reply(200, Obj1("schemas", Arr(schemas)))

\* POST /api/query/schemas/list, up to its first await.
schemasListBody == Call(Chars("SHOW TABLES"), <<>>, [step |-> 1])

\* After SHOW TABLES (step 1) and after the DESCRIBE of table i (step 2).
\* map exists on arrays only, and for...of needs an iterable.
schemasListAfter(locals, out) ==
    IF out.t = "throw" THEN Throw(out.e)
    ELSE IF locals.step = 1
    THEN IF ~Truthy(out.v) \/ (isArray(out.v) /\ Len(out.v.v) = 0)
         THEN ReplyError(404, "Nenhuma tabela encontrada no banco de dados")
         ELSE IF ~isArray(out.v) THEN Throw(Err("tablesResult.map is not a function"))
         ELSE LET tables == [i \in 1..Len(out.v.v) |->
                                GetC(out.v.v[i], Chars("Tables_in_") \o DbName)]
              IN  Call(DescribeSql(tables[1]), <<>>,
                       [step |-> 2, i |-> 1, tables |-> tables, schemas |-> <<>>])
    ELSE IF ~isArray(out.v) THEN Throw(Err("columnsResult is not iterable"))
    ELSE LET schemas == Append(locals.schemas,
                               schemaOf(locals.tables[locals.i], fieldsList(<<>>, out.v.v)))
         IN  IF locals.i < Len(locals.tables)
             THEN Call(DescribeSql(locals.tables[locals.i + 1]), <<>>,
                       [step |-> 2, i |-> locals.i + 1, tables |-> locals.tables,
                        schemas |-> schemas])
             ELSE Reply(200, Obj1("schemas", Arr(schemas)))

(***************************************************************************)
(* The database behind connection.execute                                  *)
(***************************************************************************)

\* The most tables a schema request names or the database lists.
MaxTables == 2

IsWord(tok, w) == tok.k = "word" /\ toUpperCase(tok.v) = Chars(w)
IsSym(tok, c) == tok.k = "sym" /\ tok.v = c

\* A statement the server or the driver refuses whatever the data: a quote
\* left open, an empty identifier, an empty IN list, a WHERE with no
\* condition, a placeholder count other than the number of bound values, or
\* an undefined bound value.
Malformed(sql, params) ==
    LET t == Lex(sql)
    IN  \/ Len(t) = 0
        \/ \E i \in 1..Len(t) : t[i].k = "bad" \/ (t[i].k = "id" /\ Len(t[i].v) = 0)
        \/ \E i \in 1..(Len(t) - 2) :
              IsWord(t[i], "IN") /\ IsSym(t[i + 1], "(") /\ IsSym(t[i + 2], ")")
        \/ IsWord(t[Len(t)], "WHERE")
        \/ Placeholders(sql) # Len(params)
        \/ \E i \in 1..Len(params) : params[i].k = "undef"

\* The result header of a statement that returns no rows.
Header(affectedRows, insertId) ==
    Obj2("affectedRows", Num(affectedRows), "insertId", Num(insertId))

RowA == Obj3("_id", Str("1"), "name", Str("a"), "date_added", Date("2024-01-01T00:00:00.000Z"))
RowB == Obj2("_id", Str("2"), "date_added", Str("2024"))

\* One row of a DESCRIBE result.
Column(field, type, null, key) ==
    Obj(<< <<Chars("Field"), Str(field)>>, <<Chars("Type"), Str(type)>>,
           <<Chars("Null"), Str(null)>>, <<Chars("Key"), Str(key)>> >>)

ColumnId    == Column("id", "int(11)", "NO", "PRI")
ColumnName  == Column("name", "varchar(255)", "YES", "")
ColumnAge   == Column("age", "int(11)", "NO", "")
ColumnEmail == Column("email", "char(64)", "NO", "UNI")
\* The second column of a composite primary key.
ColumnPart  == Column("part", "int(11)", "NO", "PRI")

\* The column lists DESCRIBE may return for a table: the types the mapper
\* names, one it does not, an enumeration whose member names read like type
\* names, a composite primary key, and a column named _id that is not the
\* primary key.
ColumnLists ==
    {<<ColumnId, ColumnName>>, <<ColumnName>>, <<ColumnAge, ColumnEmail>>,
     <<Column("born", "datetime", "YES", "MUL"), Column("price", "decimal(10,2)", "YES", ""),
       Column("kind", "enum('date','text')", "YES", "")>>,
     <<Column("flag", "BOOLEAN", "NO", ""), Column("raw", "blob", "YES", "")>>,
     <<ColumnId, ColumnPart>>,
     <<ColumnId, Column("_id", "varchar(36)", "YES", "")>>}

\* Tables a request may name that the database does not have.
MissingTables == {Chars("gone")}

\* The statement names, as its table, one the database does not have.
NamesMissingTable(sql) ==
    LET t == Lex(sql)
    IN  \E i \in 2..Len(t) :
            /\ t[i].k = "id" /\ t[i].v \in MissingTables
            /\ \E w \in {"DESCRIBE", "FROM", "INTO", "UPDATE"} : IsWord(t[i - 1], w)

TableRow(name) == Obj(<< <<Chars("Tables_in_") \o DbName, Str(name)>> >>)
TableNames == <<"t", "u", "v", "w">>

\* What connection.execute may resolve to for a statement it accepts, by the
\* statement's first word.
DbResults(sql, params) ==
    LET t == Lex(sql)
    IN  IF Malformed(sql, params) \/ NamesMissingTable(sql) THEN {}
        ELSE IF IsWord(t[1], "SELECT")
        THEN IF \E i \in 1..Len(t) : IsWord(t[i], "COUNT")
             THEN {Arr(<<Obj1("totalCount", Num(n))>>) : n \in {0, 2}}
             ELSE {Arr(<<>>), Arr(<<RowA>>), Arr(<<RowB, RowA>>)}
        ELSE IF IsWord(t[1], "SHOW")
        THEN {Arr([i \in 1..n |-> TableRow(TableNames[i])]) : n \in 0..MaxTables}
        ELSE IF IsWord(t[1], "DESCRIBE")
        THEN {Arr(columns) : columns \in ColumnLists}
        ELSE IF IsWord(t[1], "INSERT")
        THEN {Header(1, 7), Header(1, 0)}
        ELSE {Header(0, 0), Header(1, 0)}

\* What connection.execute may reject with: the server's error for a table it
\* does not have, or a failure of the statement or of the link, which no
\* statement is safe from.
DbErrors(sql, params) ==
    {Err("ER_STATEMENT")}
    \cup (IF NamesMissingTable(sql) THEN {Err("ER_NO_SUCH_TABLE")} ELSE {})

(***************************************************************************)
(* The server: requests in flight                                          *)
(***************************************************************************)

\* The most requests in flight at once.
MaxInFlight == 2
Slots == 1..MaxInFlight

VARIABLES
    tree,       \* which source tree is the running server
    SECRET_KEY, \* process.env.SECRET_KEY
    req,        \* req[r]: the request held by slot r
    pc,         \* pc[r]: idle, gate, handler, await or done
    loc,        \* loc[r]: the handler's local variables across an await
    exec,       \* exec[r]: the executeQuery call the handler awaits
    calls,      \* calls[r]: the executeQuery calls the request has made
    resp,       \* resp[r]: the responses sent for the request
    open        \* the connections acquired and not yet released

vars == <<tree, SECRET_KEY, req, pc, loc, exec, calls, resp, open>>

\* No call in progress.
IdleExec ==
    [phase |-> "idle", sql |-> <<>>, params |-> <<>>, conn |-> 0, acquired |-> 0,
     executed |-> 0, released |-> 0, releaseFailed |-> FALSE,
     tryOut |-> [t |-> "none"], out |-> [t |-> "none"]]

Init ==
    /\ tree \in Trees
    /\ SECRET_KEY = Str("k")
    /\ req = [r \in Slots |-> NoRequest]
    /\ pc = [r \in Slots |-> "idle"]
    /\ loc = [r \in Slots |-> NoLocals]
    /\ exec = [r \in Slots |-> IdleExec]
    /\ calls = [r \in Slots |-> <<>>]
    /\ resp = [r \in Slots |-> <<>>]
    /\ open = {}

\* The handler of slot r stops running with effect eff: a response ends the
\* request, a call starts executeQuery(sql, params).
Do(r, eff) ==
    /\ eff.t \in {"reply", "call"}
    /\ IF eff.t = "reply"
       THEN /\ resp' = [resp EXCEPT ![r] = Append(@, [status |-> eff.status, body |-> eff.body])]
            /\ pc' = [pc EXCEPT ![r] = "done"]
            /\ loc' = [loc EXCEPT ![r] = NoLocals]
            /\ UNCHANGED <<calls, exec>>
       ELSE /\ exec' = [exec EXCEPT ![r] = [IdleExec EXCEPT !.phase = "acquire",
                                                              !.sql = eff.sql,
                                                              !.params = eff.params]]
            /\ calls' = [calls EXCEPT ![r] = Append(@, [sql |-> eff.sql, params |-> eff.params])]
            /\ loc' = [loc EXCEPT ![r] = eff.loc]
            /\ pc' = [pc EXCEPT ![r] = "await"]
            /\ UNCHANGED resp
    /\ UNCHANGED <<tree, SECRET_KEY, req, open>>

\* The gate's test: !providedKey || providedKey !== process.env.SECRET_KEY.
unauthorizedIfAbsent(providedKey, configured) == ~Truthy(providedKey)
unauthorized(providedKey, configured) == ~Truthy(providedKey) \/ providedKey # configured

\* validateSecretKey: 403 unless the body's secret is truthy and strictly
\* equal to the configured one; otherwise next() enters the handler.
validateSecretKey(r) ==
    /\ pc[r] = "gate"
    /\ LET providedKey == req[r].secretKey
       IN  IF unauthorized(providedKey, SECRET_KEY)
           THEN Do(r, ReplyError(403, "Acesso nao autorizado"))
           ELSE /\ pc' = [pc EXCEPT ![r] = "handler"]
                /\ UNCHANGED <<tree, SECRET_KEY, req, loc, exec, calls, resp, open>>

(***************************************************************************)
(* executeQuery(query, binds)                                              *)
(***************************************************************************)

\* What getConnection of ./mysqlConnector resolves to: a connection made for
\* the call, none that is open already.  A request awaits one call at a time,
\* so there are never more connections than slots.  (sharedConnection is a
\* connector that hands every call the one connection it keeps.)
sharedConnection(inUse) == 1
freshConnection(inUse) == CHOOSE c \in Slots \ inUse : \A d \in Slots \ inUse : c <= d

\* await getConnection(): a connection no call holds, or a rejection, which
\* catch rethrows once finally has run.
getConnection(r) ==
    /\ exec[r].phase = "acquire"
    /\ \/ LET c == freshConnection(open)
          IN  /\ exec' = [exec EXCEPT ![r].phase = "execute", ![r].conn = c,
                                      ![r].acquired = @ + 1]
              /\ open' = open \cup {c}
       \/ /\ exec' = [exec EXCEPT ![r].phase = "finally",
                                  ![r].tryOut = Threw(Err("connect ECONNREFUSED"))]
          /\ UNCHANGED open
    /\ UNCHANGED <<tree, SECRET_KEY, req, pc, loc, calls, resp>>

\* await connection.execute(query, binds): rows, of which rows || [] is
\* returned, or the statement's error, which catch rethrows; either way
\* finally runs next.
connectionExecute(r) ==
    /\ exec[r].phase = "execute"
    /\ \/ \E rows \in DbResults(exec[r].sql, exec[r].params) :
              exec' = [exec EXCEPT ![r].phase = "finally", ![r].executed = @ + 1,
                                   ![r].tryOut = Returned(IF Truthy(rows) THEN rows
                                                          ELSE Arr(<<>>))]
       \/ \E err \in DbErrors(exec[r].sql, exec[r].params) :
              exec' = [exec EXCEPT ![r].phase = "finally", ![r].executed = @ + 1,
                                   ![r].tryOut = Threw(err)]
    /\ UNCHANGED <<tree, SECRET_KEY, req, pc, loc, calls, resp, open>>

\* if (connection): finally ends the connection whenever one was acquired,
\* whatever the try block did.
releasesOnSuccessOnly(e) == e.conn # 0 /\ e.tryOut.t = "ret"
releases(e) == e.conn # 0

\* How the call settles after finally: the inner try/catch logs a failure of
\* connection.end() and lets the try block's own return or throw stand.
settleMasked(tryOut, endFails) == IF endFails THEN Threw(Err("end ECONNRESET")) ELSE tryOut
settle(tryOut, endFails) == tryOut

\* The finally block, after which the call has returned or thrown.
finallyBlock(r) ==
    /\ exec[r].phase = "finally"
    /\ \E endFails \in (IF releases(exec[r]) THEN BOOLEAN ELSE {FALSE}) :
          LET out == settle(exec[r].tryOut, endFails)
          IN  exec' = [exec EXCEPT ![r].phase = IF out.t = "ret" THEN "returned" ELSE "threw",
                                   ![r].out = out,
                                   ![r].released = IF releases(exec[r]) THEN @ + 1 ELSE @,
                                   ![r].releaseFailed = endFails]
    /\ open' = IF releases(exec[r]) THEN open \ {exec[r].conn} ELSE open
    /\ UNCHANGED <<tree, SECRET_KEY, req, pc, loc, calls, resp>>

\* The handler of slot r is at its start, or its awaited call has settled.
AtStart(r, ep) == pc[r] = "handler" /\ req[r].ep = ep
Settled(r, ep) == pc[r] = "await" /\ req[r].ep = ep /\ exec[r].phase \in {"returned", "threw"}

Outcome(r) == exec[r].out

(***************************************************************************)
(* The routes: each handler from its start to its first await, and from    *)
(* each settled await on, inside its try block with its catch              *)
(***************************************************************************)

provision(r) ==
    AtStart(r, "provision") /\ Do(r, CatchGeneric(provisionBody(req[r]), MsgInternal))

apiQuery(r) ==
    \/ AtStart(r, "query") /\ Do(r, CatchMessage(rawSqlBody(req[r])))
    \/ Settled(r, "query") /\ Do(r, CatchMessage(apiQueryAfter(Outcome(r))))

apiUpdate(r) ==
    \/ AtStart(r, "update") /\ Do(r, CatchMessage(rawSqlBody(req[r])))
    \/ Settled(r, "update") /\ Do(r, CatchMessage(apiUpdateAfter(Outcome(r))))

schemasFind(r) ==
    \/ AtStart(r, "schemas/find") /\ Do(r, CatchGeneric(schemasFindBody(req[r]), MsgInternal))
    \/ Settled(r, "schemas/find")
       /\ Do(r, CatchGeneric(schemasFindAfter(req[r], loc[r], Outcome(r)), MsgInternal))

schemasList(r) ==
    \/ AtStart(r, "schemas/list") /\ Do(r, CatchGeneric(schemasListBody, MsgInternal))
    \/ Settled(r, "schemas/list")
       /\ Do(r, CatchGeneric(schemasListAfter(loc[r], Outcome(r)), MsgInternal))

itemsFind(r) ==
    \/ AtStart(r, "items/find") /\ Do(r, CatchGeneric(itemsFindBody(req[r]), MsgInternal))
    \/ Settled(r, "items/find") /\ Do(r, CatchGeneric(itemsFindAfter(Outcome(r)), MsgInternal))

itemsGet(r) ==
    \/ AtStart(r, "items/get") /\ Do(r, CatchGeneric(itemsGetBody(req[r]), MsgInternal))
    \/ Settled(r, "items/get") /\ Do(r, CatchGeneric(itemsGetAfter(Outcome(r)), MsgInternal))

dataCount(r) ==
    \/ AtStart(r, "data/count") /\ Do(r, CatchGeneric(dataCountBody(req[r]), MsgInternal))
    \/ Settled(r, "data/count") /\ Do(r, CatchGeneric(dataCountAfter(Outcome(r)), MsgInternal))

dataInsert(r) ==
    \/ AtStart(r, "data/insert") /\ Do(r, CatchGeneric(dataInsertBody(req[r]), MsgInternal))
    \/ Settled(r, "data/insert") /\ Do(r, CatchGeneric(dataInsertAfter(Outcome(r)), MsgInternal))

\* The current tree's catch returns the exception's message as details.
dataFindCatch(eff) ==
    IF tree = "current" THEN CatchDetails(eff, MsgInternal) ELSE CatchGeneric(eff, MsgInternal)

dataFind(r) ==
    \/ AtStart(r, "data/find") /\ Do(r, dataFindCatch(dataFindBody(tree, req[r])))
    \/ Settled(r, "data/find")
       /\ Do(r, dataFindCatch(dataFindAfter(tree, req[r], loc[r], Outcome(r))))

dataUpdate(r) ==
    \/ AtStart(r, "data/update") /\ Do(r, CatchDetails(dataUpdateBody(req[r]), MsgInternal))
    \/ Settled(r, "data/update") /\ Do(r, CatchDetails(dataUpdateAfter(Outcome(r)), MsgInternal))

dataRemove(r) ==
    \/ AtStart(r, "data/remove") /\ Do(r, CatchDetails(dataRemoveBody(req[r]), MsgInternal))
    \/ Settled(r, "data/remove") /\ Do(r, CatchDetails(dataRemoveAfter(Outcome(r)), MsgInternal))

\* The request is over: its closure is dropped and the slot is free again.
Finish(r) ==
    /\ pc[r] = "done"
    /\ req' = [req EXCEPT ![r] = NoRequest]
    /\ pc' = [pc EXCEPT ![r] = "idle"]
    /\ calls' = [calls EXCEPT ![r] = <<>>]
    /\ resp' = [resp EXCEPT ![r] = <<>>]
    /\ exec' = [exec EXCEPT ![r] = IdleExec]
    /\ UNCHANGED <<tree, SECRET_KEY, loc, open>>

(***************************************************************************)
(* The requests explored                                                   *)
(***************************************************************************)

\* The most properties of a filter mapping or of a payload.
MaxKeys == 2
\* The most elements of a $hasSome list or of a sort list.
MaxList == 2

\* Table names: a plain one, and one holding the quote character and a dot.
TableIds == {Str("t"), Str("x^y.z")}
\* Property names: plain, the identifier field, and one holding the quote
\* character, a dot and a question mark.
FieldKeys == {Chars("a"), Chars("_id"), Chars("c^.?")}
FieldValues == {Str("v"), Num(5)}

\* A secret that is absent, wrong or the configured one.
Secrets == {Undef, Str("x"), Str("k")}

\* The sequences of at most n elements of S, and those without repetition.
Seqs(S, n) == UNION {[1..m -> S] : m \in 0..n}
DistinctSeqs(S, n) == {q \in Seqs(S, n) : \A i, j \in 1..Len(q) : i # j => q[i] # q[j]}

\* The mappings of at most n properties, in every property order.  (None of
\* the property names is an array index, so JSON.parse keeps their order.)
Mappings(n) ==
    UNION {{Obj([i \in 1..Len(ks) |-> <<ks[i], vs[i]>>]) : vs \in [1..Len(ks) -> FieldValues]} :
           ks \in DistinctSeqs(FieldKeys, n)}

\* A filter as a flat mapping, or something that is no mapping at all.
FlatFilters == Mappings(MaxKeys) \cup {Undef, Num(5), Str("ab")}

\* A filter as one structured clause {operator, fieldName, value}, with a
\* recognised operator, another one, or none.
ClauseValues == {Str("v")} \cup {Arr(q) : q \in Seqs({Num(1), Str("v")}, MaxList)}
StructuredFilters ==
    {Obj3("operator", Str(op), "fieldName", Str("c^.?"), "value", v) :
        op \in {"$eq", "$hasSome", "$gt"}, v \in ClauseValues}
    \cup {Obj2("fieldName", Str("a"), "value", v) : v \in {Str("v"), Arr(<<Num(1)>>)}}

SortEntries ==
    {Obj2("fieldName", Str("a"), "order", Str("ASC")),
     Obj2("fieldName", Str("c^.?"), "order", Str("desc"))}
Sorts == {Arr(q) : q \in Seqs(SortEntries, MaxList)} \cup {Undef, Str("a"), Arr(<<Null>>)}

\* A few filters of each form, to go with every sort and page.
SomeFilters ==
    {Undef,
     Obj3("operator", Str("$eq"), "fieldName", Str("a"), "value", Num(5)),
     Obj3("value", Arr(<<Str("v"), Num(1)>>), "operator", Str("$hasSome"), "fieldName", Str("a")),
     Obj2("a", Str("v"), "c^.?", Num(5))}

\* Sort entries over every form of direction: the two recognised words, other
\* letter cases, another word, a number, none, and one under another key.
OrderEntries ==
    {Obj2("fieldName", Str("a"), "order", o) :
        o \in {Str("ASC"), Str("DESC"), Str("asc"), Str("Asc"), Str("up"), Num(1), Null}}
    \cup {Obj1("fieldName", Str("c^.?")), Obj2("fieldName", Str("a"), "direction", Str("ASC"))}

\* A skip or a limit: absent, a number (zero too), or a number as text.
PageValues == {Undef, Null, Num(0), Num(3), Str("3")}

SqlTexts ==
    {Str("SELECT * FROM x"), Str("select name from x where a = 1"),
     Str("DROP TABLE x"), Str("drop table x"), Str("SELECT * FROM backdrops"),
     Str("Delete FROM x"), Str("SELECT deleted FROM x"), Str("ALTER TABLE x ADD c INT"),
     Str("truncate x"), Str("SELECT 'TrUnCaTe'"), Str("UPDATE x SET a = 1"),
     Str("SELECT * FROM x WHERE a = ?"), Str("INSERT INTO x (a) VALUES (1)"),
     Str(""), Num(1), Undef}

Q(ep) == [NoRequest EXCEPT !.ep = ep]

\* The requests of each route.  Where a handler reads several inputs, every
\* form of each input is explored, the others being absent or plain, and
\* the inputs that meet in one statement are explored together over a few
\* forms of each.
RequestsOf(ep) ==
    CASE ep = "provision" ->
           {[Q(ep) EXCEPT !.installationId = i] : i \in {Undef, Str("inst-1")}}
      [] ep \in {"query", "update"} ->
           {[Q(ep) EXCEPT !.sql = q] : q \in SqlTexts}
      [] ep = "schemas/find" ->
           {[Q(ep) EXCEPT !.schemaIds = ids] :
               ids \in {Undef, Str("t")}
                       \cup {Arr(q) : q \in Seqs(TableIds \cup {Str("gone")}, MaxTables)}}
      [] ep = "schemas/list" -> {Q(ep)}
      [] ep = "items/find" ->
           {[Q(ep) EXCEPT !.table = t, !.filter = f] :
               t \in TableIds \cup {Undef}, f \in FlatFilters}
           \cup
           {[Q(ep) EXCEPT !.table = Str("t"), !.filter = f, !.limit = l, !.offset = o] :
               f \in {Undef, Obj2("c^.?", Num(5), "a", Str("v"))},
               l \in {Undef, Num(0), Num(5)}, o \in {Undef, Num(0), Num(7)}}
      [] ep = "items/get" ->
           {[Q(ep) EXCEPT !.table = t, !.id = i] : t \in TableIds, i \in {Str("1"), Str("x y")}}
      [] ep = "data/count" ->
           {[Q(ep) EXCEPT !.collectionName = c, !.filter = f] :
               c \in TableIds \cup {Undef}, f \in FlatFilters}
      [] ep = "data/insert" ->
           {[Q(ep) EXCEPT !.collectionName = c, !.item = i] :
               c \in TableIds \cup {Undef, Num(5)},
               i \in Mappings(MaxKeys) \cup {Undef, Str("ab"), Arr(<<Num(5)>>)}}
           \cup
           {[Q(ep) EXCEPT !.collectionName = Str("t"), !.item = i, !.data = d] :
               i \in {Undef, Obj(<<>>), Obj1("a", Num(5)),
                      Obj2("name", Str("a"), "age", Num(5))},
               d \in {Obj1("c^.?", Str("v")), Obj(<<>>)}}
      [] ep = "data/find" ->
           {[Q(ep) EXCEPT !.collectionName = c, !.filter = f] :
               c \in TableIds \cup {Undef}, f \in FlatFilters \cup StructuredFilters}
           \cup
           {[Q(ep) EXCEPT !.collectionName = Str("t"), !.filter = f, !.sort = s, !.skip = k,
                          !.limit = l, !.returnTotalCount = n] :
               f \in SomeFilters, s \in Sorts, k \in {Undef, Num(2)}, l \in {Undef, Num(5)},
               n \in {Undef, Bool(TRUE)}}
           \cup
           {[Q(ep) EXCEPT !.collectionName = Str("t"), !.filter = f, !.skip = k, !.limit = l] :
               f \in {Undef, Obj3("operator", Str("$eq"), "fieldName", Str("a"), "value", Num(5))},
               k \in PageValues, l \in PageValues}
           \cup
           {[Q(ep) EXCEPT !.collectionName = Str("t"), !.sort = Arr(q)] :
               q \in Seqs(OrderEntries, MaxList)}
      [] ep = "data/update" ->
           {[Q(ep) EXCEPT !.collectionName = c, !.item = i] :
               c \in TableIds \cup {Undef},
               i \in Mappings(MaxKeys)
                     \cup {Undef, Obj2("a", Str("v"), "_id", Num(0)), Obj1("_id", Str("")),
                           Obj2("_id", Num(7), "name", Str("b"))}}
      [] ep = "data/remove" ->
           {[Q(ep) EXCEPT !.collectionName = c, !.itemId = i] :
               c \in TableIds \cup {Undef}, i \in {Undef, Num(0), Num(7), Str("1")}}

\* The routes each tree registers: the hostinger tree has no update or remove.
Routes(t) ==
    {"provision", "query", "update", "schemas/find", "schemas/list", "items/find",
     "items/get", "data/count", "data/insert", "data/find"}
    \cup (IF t = "current" THEN {"data/update", "data/remove"} ELSE {})

\* A request for a registered route arrives in a free slot.
Arrive(r) ==
    /\ pc[r] = "idle"
    /\ \E ep \in Routes(tree) : \E q \in RequestsOf(ep) : \E key \in Secrets :
          req' = [req EXCEPT ![r] = [q EXCEPT !.secretKey = key]]
    /\ pc' = [pc EXCEPT ![r] = "gate"]
    /\ UNCHANGED <<tree, SECRET_KEY, loc, exec, calls, resp, open>>

Step(r) ==
    \/ Arrive(r)
    \/ validateSecretKey(r)
    \/ provision(r)
    \/ apiQuery(r)
    \/ apiUpdate(r)
    \/ schemasFind(r)
    \/ schemasList(r)
    \/ itemsFind(r)
    \/ itemsGet(r)
    \/ dataCount(r)
    \/ dataInsert(r)
    \/ dataFind(r)
    \/ dataUpdate(r)
    \/ dataRemove(r)
    \/ getConnection(r)
    \/ connectionExecute(r)
    \/ finallyBlock(r)
    \/ Finish(r)

\* Requests one at a time.
Next == Step(1)

Spec == Init /\ [][Next]_vars

\* Requests in every slot at once.  A handler runs from one await to the
\* next without interruption, so the steps of the requests in flight
\* interleave at the awaits in any order.  The requests are a handler of one
\* call and one of two calls, with a wrong secret or the right one.
ConcurrentRequests ==
    {[Q("items/get") EXCEPT !.table = Str("t"), !.id = Str("1"), !.secretKey = key] :
        key \in {Str("x"), Str("k")}}
    \cup {[Q("data/find") EXCEPT !.collectionName = Str("t"), !.returnTotalCount = Bool(TRUE),
                                !.secretKey = Str("k")]}

ArriveAny(r) ==
    /\ pc[r] = "idle"
    /\ \E q \in ConcurrentRequests : req' = [req EXCEPT ![r] = q]
    /\ pc' = [pc EXCEPT ![r] = "gate"]
    /\ UNCHANGED <<tree, SECRET_KEY, loc, exec, calls, resp, open>>

StepAny(r) ==
    \/ ArriveAny(r)
    \/ validateSecretKey(r)
    \/ itemsGet(r)
    \/ dataFind(r)
    \/ getConnection(r)
    \/ connectionExecute(r)
    \/ finallyBlock(r)
    \/ Finish(r)

NextConc == \E r \in Slots : StepAny(r)

SpecConc == Init /\ [][NextConc]_vars

(***************************************************************************)
(* Properties                                                              *)
(***************************************************************************)

\* Slot r holds a request.
Busy(r) == req[r].ep # "none"

\* The secret of the request in slot r is absent or is not the configured one.
SecretMissingOrWrong(r) == req[r].secretKey = Undef \/ req[r].secretKey # SECRET_KEY

\* The request in slot r has been answered with this status, once.
Answered(r, status) == pc[r] = "done" /\ Len(resp[r]) = 1 /\ resp[r][1].status = status

\* C1: on every route and for every body, a request whose secret is absent
\* or differs from the configured one never gets past the gate (no handler
\* step, no executeQuery call, no statement) and its response is 403.
C1_GateRejectsBeforeHandler ==
    \A r \in Slots :
        (Busy(r) /\ SecretMissingOrWrong(r)) =>
            /\ pc[r] \in {"gate", "done"}
            /\ calls[r] = <<>>
            /\ exec[r] = IdleExec
            /\ pc[r] = "done" => Answered(r, 403)

\* A data/find request carrying a collection, a filter and a page, but a
\* wrong secret, has been answered 403.
C1_Witness ==
    \E r \in Slots :
        /\ req[r].ep = "data/find" /\ req[r].secretKey = Str("x")
        /\ req[r].collectionName = Str("t") /\ req[r].filter # Undef /\ req[r].limit = Num(5)
        /\ Answered(r, 403) /\ calls[r] = <<>>

\* The executeQuery call of slot r has returned or thrown.
CallSettled(r) == exec[r].phase \in {"returned", "threw"}

\* C2: a call of executeQuery acquires at most one connection; on a
\* connection it acquired it executes exactly one statement and attempts
\* exactly one release before it returns or throws, whether the statement
\* succeeds or fails and whether the release fails; with no connection
\* acquired it executes and releases nothing.
C2_OneStatementOneRelease ==
    \A r \in Slots :
        /\ exec[r].acquired <= 1
        /\ exec[r].executed <= exec[r].acquired
        /\ exec[r].released <= exec[r].executed
        /\ CallSettled(r) =>
              /\ exec[r].executed = exec[r].acquired
              /\ exec[r].released = exec[r].acquired

\* A call whose statement failed and whose release failed too has thrown,
\* after one statement and one release attempt.
C2_Witness ==
    \E r \in Slots :
        /\ exec[r].phase = "threw" /\ exec[r].tryOut = Threw(Err("ER_STATEMENT"))
        /\ exec[r].releaseFailed
        /\ exec[r].acquired = 1 /\ exec[r].executed = 1 /\ exec[r].released = 1

\* C3: when releasing the connection fails, the call still ends as its
\* statement did: it returns the statement's rows, or throws the statement's
\* own error.
C3_ReleaseFailureKeepsOutcome ==
    \A r \in Slots :
        (CallSettled(r) /\ exec[r].releaseFailed) =>
            /\ exec[r].out = exec[r].tryOut
            /\ exec[r].tryOut.t = "ret" => exec[r].phase = "returned"
            /\ exec[r].tryOut.t = "throw" =>
                  /\ exec[r].phase = "threw"
                  /\ exec[r].out.e \in DbErrors(exec[r].sql, exec[r].params)

\* A call has returned its statement's rows although the release failed.
C3_Witness ==
    \E r \in Slots :
        /\ exec[r].phase = "returned" /\ exec[r].releaseFailed
        /\ exec[r].out = Returned(Arr(<<RowA>>))

(***************************************************************************)
(* Reading a statement back: what the text handed to the executor says     *)
(***************************************************************************)

\* The tokens with every qualified name ^a^.^b^ read as the one name a.b.
RECURSIVE Qualified(_)
Qualified(toks) ==
    IF Len(toks) = 0 THEN <<>>
    ELSE IF Len(toks) >= 3 /\ toks[1].k = "id" /\ IsSym(toks[2], ".") /\ toks[3].k = "id"
    THEN Qualified(<<TokId(toks[1].v \o <<".">> \o toks[3].v)>> \o SubSeq(toks, 4, Len(toks)))
    ELSE <<toks[1]>> \o Qualified(Tail(toks))

Read(sql) == Qualified(Lex(sql))

W(w) == TokWord(Chars(w))
S(c) == TokSym(c)

\* The words of the handlers' statement templates.
Template ==
    {Chars(w) : w \in {"SELECT", "FROM", "WHERE", "AND", "IN", "ORDER", "BY", "ASC", "DESC",
                       "LIMIT", "OFFSET", "COUNT", "AS", "totalCount", "INSERT", "INTO",
                       "VALUES", "UPDATE", "SET", "DELETE", "DESCRIBE", "_id"}}

\* Outside its quoted names the text holds template words, punctuation and
\* placeholders only, and every quote is closed.
TemplateOnly(T) ==
    \A i \in 1..Len(T) : T[i].k # "bad" /\ (T[i].k = "word" => T[i].v \in Template)

\* The positions of the placeholders, and the rank of the one at i.
PhAt(T) == {i \in 1..Len(T) : T[i].k = "ph"}
PhIndex(T, i) == Cardinality({j \in PhAt(T) : j <= i})

\* The token before, and the last token of, the comma-separated placeholder
\* list around position i.
RECURSIVE ListStart(_, _)
ListStart(T, i) ==
    IF i = 0 THEN 0
    ELSE IF T[i].k = "ph" \/ IsSym(T[i], ",") THEN ListStart(T, i - 1) ELSE i
RECURSIVE ListEnd(_, _)
ListEnd(T, i) ==
    IF i < Len(T) /\ (T[i + 1].k = "ph" \/ IsSym(T[i + 1], ",")) THEN ListEnd(T, i + 1) ELSE i

NoTarget == [kind |-> "none", name |-> <<>>, at |-> 0]

\* What the placeholder at position i stands for: the value compared or
\* assigned to a name (name = ?, or the k-th of VALUES for the k-th column),
\* the k-th element of name IN (...), the row count or the offset of the page.
Target(T, i) ==
    LET s == ListStart(T, i - 1)
        k == Cardinality({j \in PhAt(T) : s < j /\ j <= i})
        n == Cardinality({j \in PhAt(T) : s < j /\ j <= ListEnd(T, i)})
        columns == IF s >= 3 THEN Tail(IdsOf(SubSeq(T, 1, s - 2))) ELSE <<>>
    IN  IF s = 0 THEN NoTarget
        ELSE IF IsSym(T[s], "=")
        THEN IF s >= 2 /\ k = 1 /\ T[s - 1].k \in {"id", "word"}
             THEN [kind |-> "eq", name |-> T[s - 1].v, at |-> 1] ELSE NoTarget
        ELSE IF IsSym(T[s], "(")
        THEN IF s >= 3 /\ IsWord(T[s - 1], "IN") /\ T[s - 2].k = "id"
             THEN [kind |-> "in", name |-> T[s - 2].v, at |-> k]
             ELSE IF s >= 2 /\ IsWord(T[s - 1], "VALUES") /\ k <= Len(columns)
             THEN [kind |-> "eq", name |-> columns[k], at |-> 1]
             ELSE NoTarget
        ELSE IF IsWord(T[s], "LIMIT")
        THEN IF n = 2 /\ k = 1 THEN [kind |-> "offset", name |-> <<>>, at |-> 1]
             ELSE IF k = n THEN [kind |-> "rowcount", name |-> <<>>, at |-> 1]
             ELSE NoTarget
        ELSE IF IsWord(T[s], "OFFSET") /\ k = 1
        THEN [kind |-> "offset", name |-> <<>>, at |-> 1]
        ELSE NoTarget

\* The mapping m has the entry name: value.
EntryOf(m, name, value) == \E i \in 1..Len(Entries(m)) : Entries(m)[i] = <<name, value>>

\* The request q supplies value for the target t: as the value of the field
\* of that name in its filter or payload, as its clause's value or the k-th
\* element of its clause's list, as its item id, or as its page.
Supplied(q, t, value) ==
    \/ /\ t.kind = "eq"
       /\ \/ EntryOf(q.filter, t.name, value)
          \/ EntryOf(q.item, t.name, value)
          \/ EntryOf(q.data, t.name, value)
          \/ t.name = ToStr(Get(q.filter, "fieldName")) /\ value = Get(q.filter, "value")
          \/ t.name = Chars("_id") /\ q.ep = "items/get" /\ value = q.id
          \/ t.name = Chars("_id") /\ q.ep = "data/remove" /\ value = q.itemId
    \/ /\ t.kind = "in"
       /\ t.name = ToStr(Get(q.filter, "fieldName"))
       /\ isArray(Get(q.filter, "value"))
       /\ t.at <= Len(Get(q.filter, "value").v)
       /\ value = Get(q.filter, "value").v[t.at]
    \/ t.kind = "offset" /\ value = (IF q.ep = "data/find" THEN q.skip ELSE q.offset)
    \/ t.kind = "rowcount" /\ value = q.limit

\* The routes that build their statement from the request's names and values.
StructuredRoutes ==
    {"items/find", "items/get", "data/count", "data/insert", "data/find", "data/update",
     "data/remove"}

\* The handler of slot r has just called executeQuery(exec[r].sql, exec[r].params).
Issued(r) == pc[r] = "await" /\ exec[r].phase = "acquire"

\* The request of slot r carried the configured secret and its handler has
\* run: it is awaiting a call or has answered.
Handled(r) == Busy(r) /\ req[r].secretKey = SECRET_KEY /\ pc[r] \in {"await", "done"}

\* C4: on the structured routes a request's values reach the executor in the
\* parameter list only: the statement text holds nothing but template words,
\* quoted names and placeholders, it has as many placeholders as the list has
\* parameters, and the i-th parameter is the value the request supplies for
\* what the i-th placeholder stands for.
C4_ValuesOnlyAsParameters ==
    \A r \in Slots :
        (Issued(r) /\ req[r].ep \in StructuredRoutes) =>
            LET T == Read(exec[r].sql)
                params == exec[r].params
            IN  /\ TemplateOnly(T)
                /\ Placeholders(exec[r].sql) = Len(params)
                /\ \A i \in PhAt(T) :
                       /\ PhIndex(T, i) <= Len(params)
                       /\ Supplied(req[r], Target(T, i), params[PhIndex(T, i)])

\* A data/find with a two-element $hasSome list and a page has been issued
\* with its four values as the four parameters.
C4_Witness ==
    \E r \in Slots :
        /\ Issued(r) /\ req[r].ep = "data/find" /\ tree = "current"
        /\ exec[r].sql = Chars("SELECT * FROM ^t^ WHERE ^a^ IN (?,?) LIMIT ?, ?")
        /\ exec[r].params = <<Str("v"), Num(1), Num(2), Num(5)>>

\* The names a request gives for the table of its statement, and for fields.
TableOf(q) ==
    IF q.ep \in {"items/find", "items/get"} THEN {ToStr(q.table)}
    ELSE IF q.ep = "schemas/find"
    THEN (IF isArray(q.schemaIds)
          THEN {ToStr(q.schemaIds.v[i]) : i \in 1..Len(q.schemaIds.v)} ELSE {})
    ELSE {ToStr(q.collectionName)}
NamesOf(m) == {Keys(m)[i] : i \in 1..Len(Keys(m))}
FieldsOf(q) ==
    NamesOf(q.filter) \cup NamesOf(q.item) \cup NamesOf(q.data)
    \cup {ToStr(Get(q.filter, "fieldName"))}
    \cup (IF isArray(q.sort)
          THEN {ToStr(Get(q.sort.v[i], "fieldName")) : i \in 1..Len(q.sort.v)} ELSE {})

\* The token at i is where a statement names its table.
TablePlace(T, i) ==
    i >= 2 /\ \E w \in {"FROM", "INTO", "UPDATE", "DESCRIBE"} : IsWord(T[i - 1], w)

\* C5: in every statement built from a request's table and field names, a
\* name occurs only as a quoted identifier that reads back as exactly that
\* name (the table's where the table is named, a field's elsewhere); the rest
\* of the text is template words, punctuation and placeholders, so no name
\* occurs raw.
C5_NamesOnlyEscaped ==
    \A r \in Slots :
        (Issued(r) /\ req[r].ep \in StructuredRoutes \cup {"schemas/find"}) =>
            LET T == Read(exec[r].sql)
            IN  /\ TemplateOnly(T)
                /\ \A i \in 1..Len(T) :
                       /\ T[i].k = "id" =>
                             IF TablePlace(T, i) THEN T[i].v \in TableOf(req[r])
                             ELSE T[i].v \in FieldsOf(req[r])
                       /\ TablePlace(T, i) => T[i].k = "id"

\* A data/find naming a table and a field that hold the quote character and
\* a dot has been issued with both names quoted and the quote doubled.
C5_Witness ==
    \E r \in Slots :
        /\ Issued(r) /\ req[r].ep = "data/find"
        /\ req[r].collectionName = Str("x^y.z")
        /\ Get(req[r].filter, "fieldName") = Str("c^.?")
        /\ exec[r].sql = Chars("SELECT * FROM ^x^^y^.^z^ WHERE ^c^^^.^?^ = ?")

(***************************************************************************)
(* Filters                                                                 *)
(***************************************************************************)

\* The response of slot r is an error: one response, status 400 to 599.
Rejected(r) == pc[r] = "done" /\ Len(resp[r]) = 1 /\ resp[r][1].status \in 400..599

HasKey(m, key) == indexOf(Keys(m), Chars(key)) >= 0

\* A structured clause whose operator is neither $eq nor $hasSome, or is missing.
OtherOperatorClause(f) ==
    /\ f.k = "obj" /\ HasKey(f, "fieldName") /\ HasKey(f, "value")
    /\ Get(f, "operator") \notin {Str("$eq"), Str("$hasSome")}

\* C6: a data/find whose filter is a structured clause with an operator
\* other than $eq and $hasSome, or with none, is rejected with an error
\* response and executes no statement.
C6_OtherOperatorsRejected ==
    \A r \in Slots :
        (Handled(r) /\ req[r].ep = "data/find" /\ Truthy(req[r].collectionName)
         /\ OtherOperatorClause(req[r].filter)) =>
            calls[r] = <<>> /\ Rejected(r)

\* The same, of the current tree alone.
C6_InCurrentTree == tree = "current" => C6_OtherOperatorsRejected

\* A flat mapping of n >= 1 fields to values.
FlatMapping(f) ==
    /\ f.k = "obj" /\ Len(Keys(f)) >= 1
    /\ \A key \in {"operator", "fieldName", "value"} : ~HasKey(f, key)

\* name = ? for each name in order, joined by AND.
Conjunction(names) ==
    join([i \in 1..Len(names) |-> <<TokId(names[i]), S("="), TokPh>>], <<W("AND")>>)

\* The tokens of the WHERE clause: from after WHERE to the end of the
\* statement or to its ORDER BY, LIMIT or OFFSET; none without a WHERE.
WhereClause(T) ==
    LET starts == {i \in 1..Len(T) : IsWord(T[i], "WHERE")}
    IN  IF starts = {} THEN <<>>
        ELSE LET s == CHOOSE i \in starts : \A j \in starts : i <= j
                 ends == {j \in (s + 1)..Len(T) :
                             \E w \in {"ORDER", "LIMIT", "OFFSET"} : IsWord(T[j], w)}
                         \cup {Len(T) + 1}
                 e == CHOOSE j \in ends : \A l \in ends : j <= l
             IN  SubSeq(T, s + 1, e - 1)

\* The first statement of slot r has the flat filter's conjunction as its
\* WHERE clause and the filter's values as its first parameters.
FlatFilterApplied(r) ==
    /\ Len(calls[r]) >= 1
    /\ LET n == Len(Keys(req[r].filter))
       IN  /\ WhereClause(Read(calls[r][1].sql)) = Conjunction(Keys(req[r].filter))
           /\ Len(calls[r][1].params) >= n
           /\ SubSeq(calls[r][1].params, 1, n) = Values(req[r].filter)

\* No sort, or a list of sort entries.
SortGiven(sort) ==
    sort = Undef \/ (isArray(sort) /\ \A i \in 1..Len(sort.v) : sort.v[i].k = "obj")

\* A find or count that names its table, with a flat filter.
FlatFilterRequest(r) ==
    /\ Handled(r) /\ req[r].ep \in {"items/find", "data/count", "data/find"}
    /\ FlatMapping(req[r].filter)
    /\ req[r].ep = "items/find" \/ Truthy(req[r].collectionName)
    /\ SortGiven(req[r].sort)

\* C7: for items/find, data/count and data/find, a flat filter of n >= 1
\* entries gives the statement a WHERE clause that is the conjunction of n
\* equality comparisons, one per field in key order, and the n values are
\* the parameters in the same order.
C7_FlatFilterIsConjunction ==
    \A r \in Slots : FlatFilterRequest(r) => FlatFilterApplied(r)

\* The same, leaving out the data/find of the current tree.
C7_OutsideCurrentFind ==
    \A r \in Slots :
        (FlatFilterRequest(r) /\ ~(tree = "current" /\ req[r].ep = "data/find")) =>
            FlatFilterApplied(r)

(***************************************************************************)
(* The raw-SQL denylist                                                    *)
(***************************************************************************)

\* s contains w, letter case ignored.
ContainsIgnoringCase(s, w) ==
    \E i \in 1..(Len(s) - Len(w) + 1) :
        \A j \in 1..Len(w) : LowerChar(s[i + j - 1]) = LowerChar(w[j])

Denied(s) ==
    \E w \in {"drop", "delete", "alter", "truncate"} : ContainsIgnoringCase(s, Chars(w))

OtherEntries(item) == SelectSeq(Entries(item), LAMBDA e : e[1] # Chars("_id"))

\* UPDATE table SET name = ?, ... WHERE _id = ?, over the names in order.
UpdateStatement(table, names) ==
    <<W("UPDATE"), TokId(table), W("SET")>>
    \o join([i \in 1..Len(names) |-> <<TokId(names[i]), S("="), TokPh>>], <<S(",")>>)
    \o <<W("WHERE"), W("_id"), S("="), TokPh>>

\* What data/update does with the item of slot r: with no key but _id, 400
\* "no fields to update" and no statement; otherwise one statement that sets
\* every other key, compares _id, and binds the other values in SET order
\* and the _id value last.
UpdatedById(r) ==
    LET item == req[r].item
        others == OtherEntries(item)
    IN  IF Len(others) = 0
        THEN /\ calls[r] = <<>> /\ Answered(r, 400)
             /\ resp[r][1].body = Obj1("error", Str("Nenhum campo para atualizar"))
        ELSE /\ Len(calls[r]) = 1
             /\ Read(calls[r][1].sql) =
                    UpdateStatement(ToStr(req[r].collectionName),
                                    [i \in 1..Len(others) |-> others[i][1]])
             /\ calls[r][1].params =
                    Append([i \in 1..Len(others) |-> others[i][2]], Get(item, "_id"))

UpdateRequest(r) ==
    /\ Handled(r) /\ req[r].ep = "data/update" /\ Truthy(req[r].collectionName)
    /\ req[r].item.k = "obj"

\* C9 as stated: every data/update whose item has an _id is treated so.
C9_UpdateOfAnyId ==
    \A r \in Slots : (UpdateRequest(r) /\ HasKey(req[r].item, "_id")) => UpdatedById(r)

\* C9: every data/update whose item has an _id that is not falsy (not 0, "",
\* null or false) gets a SET clause with one assignment per payload key other
\* than _id, a WHERE clause on _id, and the other values in SET order then the
\* _id value as parameters; with no other key it is answered 400 "no fields
\* to update" and no statement is executed.
C9_UpdateOfTruthyId ==
    \A r \in Slots :
        (UpdateRequest(r) /\ Truthy(Get(req[r].item, "_id"))) => UpdatedById(r)

\* The update of {_id: 7, name: "b"} has been issued: name is set, _id is
\* compared, and 7 is the last parameter although _id is the first key.
C9_Witness ==
    \E r \in Slots :
        /\ Issued(r) /\ req[r].ep = "data/update"
        /\ req[r].item = Obj2("_id", Num(7), "name", Str("b"))
        /\ exec[r].sql = Chars("UPDATE ^t^ SET ^name^ = ? WHERE _id = ?")
        /\ exec[r].params = <<Str("b"), Num(7)>>

\* INSERT INTO table (name, ...) VALUES (?, ...), over the names in order.
InsertStatement(table, names) ==
    <<W("INSERT"), W("INTO"), TokId(table), S("(")>>
    \o join([i \in 1..Len(names) |-> <<TokId(names[i])>>], <<S(",")>>)
    \o <<S(")"), W("VALUES"), S("(")>>
    \o join([i \in 1..Len(names) |-> <<TokPh>>], <<S(",")>>)
    \o <<S(")")>>

\* item || data.
PayloadOf(q) == IF Truthy(q.item) THEN q.item ELSE q.data

\* C10: a data/insert with a non-empty payload executes one statement whose
\* field list is the payload's keys in payload order, whose placeholder list
\* has one placeholder per key, and whose parameters are the payload's values
\* in the same order, so the i-th parameter is the value of the i-th field.
C10_InsertListsAligned ==
    \A r \in Slots :
        (Handled(r) /\ req[r].ep = "data/insert"
         /\ Truthy(req[r].collectionName) /\ typeof(req[r].collectionName) = "string"
         /\ typeof(PayloadOf(req[r])) = "object" /\ Len(Keys(PayloadOf(req[r]))) >= 1) =>
            /\ Len(calls[r]) = 1
            /\ Read(calls[r][1].sql) =
                   InsertStatement(req[r].collectionName.v, Keys(PayloadOf(req[r])))
            /\ calls[r][1].params = Values(PayloadOf(req[r]))

\* The insert of {name: "a", age: 5} into t has been issued with fields
\* name, age and parameters "a", 5.
C10_Witness ==
    \E r \in Slots :
        /\ Issued(r) /\ req[r].ep = "data/insert"
        /\ exec[r].sql = Chars("INSERT INTO ^t^ (^name^, ^age^) VALUES (?, ?)")
        /\ exec[r].params = <<Str("a"), Num(5)>>

(***************************************************************************)
(* Pagination and sorting of data/find                                     *)
(***************************************************************************)

\* The handler of slot r has just issued the data query of a data/find.
FindIssued(r) == Issued(r) /\ req[r].ep = "data/find" /\ Len(calls[r]) = 1

\* The tokens from the first LIMIT or OFFSET on; none without either.
PageClause(T) ==
    LET at == {i \in 1..Len(T) : IsWord(T[i], "LIMIT") \/ IsWord(T[i], "OFFSET")}
    IN  IF at = {} THEN <<>>
        ELSE SubSeq(T, CHOOSE i \in at : \A j \in at : i <= j, Len(T))

\* The value is a JSON number.
IsNumber(x) == x.k = "num"

\* C11: the data query of a data/find ends with the clause LIMIT ?, ? and
\* has skip, then limit, as its last two parameters exactly when skip and
\* limit are both numbers; otherwise it has no LIMIT or OFFSET clause and no
\* parameter beyond those of its filter.
C11_PaginationNeedsBoth ==
    \A r \in Slots :
        FindIssued(r) =>
            LET T == Read(exec[r].sql)
                params == exec[r].params
                n == Len(params)
                inFilter == Cardinality({i \in PhAt(T) : i <= Len(T) - Len(PageClause(T))})
            IN  IF IsNumber(req[r].skip) /\ IsNumber(req[r].limit)
                THEN /\ PageClause(T) = <<W("LIMIT"), TokPh, S(","), TokPh>>
                     /\ n = inFilter + 2
                     /\ params[n - 1] = req[r].skip /\ params[n] = req[r].limit
                ELSE PageClause(T) = <<>> /\ n = inFilter

\* A data/find with an equality filter, a skip of 0 and a limit of 3 has
\* been issued with the filter's value, then 0, then 3, as its parameters.
C11_Witness ==
    \E r \in Slots :
        /\ FindIssued(r) /\ req[r].skip = Num(0) /\ req[r].limit = Num(3)
        /\ req[r].filter # Undef
        /\ exec[r].params = <<Num(5), Num(0), Num(3)>>

\* The tokens of the ORDER BY clause: from ORDER to the end of the statement
\* or to its LIMIT or OFFSET; none without an ORDER.
OrderClause(T) ==
    LET starts == {i \in 1..Len(T) : IsWord(T[i], "ORDER")}
    IN  IF starts = {} THEN <<>>
        ELSE LET s == CHOOSE i \in starts : \A j \in starts : i <= j
             IN  SubSeq(T, s, Len(T) - Len(PageClause(T)))

\* One term per sort entry, in the order given: the entry's field name, then
\* ASC when its direction (the property order) is the text "ASC" and DESC
\* for anything else.
OrderTerms(entries) ==
    join([i \in 1..Len(entries) |->
            <<TokId(ToStr(Get(entries[i], "fieldName"))),
              IF Get(entries[i], "order") = Str("ASC") THEN W("ASC") ELSE W("DESC")>>],
         <<S(",")>>)

\* C12: for a data/find with a list of sort entries, the data query has the
\* clause ORDER BY with one term per entry in the order given, each term
\* ending in ASC only when the entry's direction is exactly "ASC" and in DESC
\* for every other direction, a missing or unrecognised one included; with no
\* entry there is no ORDER BY clause.
C12_SortTermsInOrder ==
    \A r \in Slots :
        (FindIssued(r) /\ SortGiven(req[r].sort)) =>
            LET T == Read(exec[r].sql)
                entries == IF req[r].sort = Undef THEN <<>> ELSE req[r].sort.v
            IN  OrderClause(T) =
                    IF Len(entries) = 0 THEN <<>>
                    ELSE <<W("ORDER"), W("BY")>> \o OrderTerms(entries)

\* A data/find sorted by a with direction "asc" and then by a field with no
\* direction has been issued with both terms descending.
C12_Witness ==
    \E r \in Slots :
        /\ FindIssued(r)
        /\ req[r].sort = Arr(<<Obj2("fieldName", Str("a"), "order", Str("asc")),
                               Obj1("fieldName", Str("c^.?"))>>)
        /\ exec[r].sql = Chars("SELECT * FROM ^t^ ORDER BY ^a^ DESC, ^c^^^.^?^ DESC")

\* A $hasSome clause whose list is empty.
EmptyHasSome(f) ==
    f.k = "obj" /\ Get(f, "operator") = Str("$hasSome") /\ Get(f, "value") = Arr(<<>>)

\* C13: a data/find whose filter is a $hasSome clause with an empty list
\* sends the database no malformed statement and is answered either with a
\* validation error (400) or with 200 and an empty item list, never with an
\* internal error.
C13_EmptyHasSomeWellDefined ==
    \A r \in Slots :
        (Handled(r) /\ req[r].ep = "data/find" /\ Truthy(req[r].collectionName)
         /\ SortGiven(req[r].sort) /\ EmptyHasSome(req[r].filter)) =>
            /\ \A i \in 1..Len(calls[r]) : ~Malformed(calls[r][i].sql, calls[r][i].params)
            /\ pc[r] = "done" =>
                  \/ Answered(r, 400)
                  \/ Answered(r, 200) /\ Get(resp[r][1].body, "items") = Arr(<<>>)

\* The same request of the current tree has been answered 500 after the
\* statement ... IN () failed.
C13_InternalError ==
    \E r \in Slots :
        /\ tree = "current" /\ req[r].ep = "data/find" /\ EmptyHasSome(req[r].filter)
        /\ Len(calls[r]) = 1
        /\ calls[r][1].sql = Chars("SELECT * FROM ^t^ WHERE ^c^^^.^?^ IN ()")
        /\ Answered(r, 500)

(***************************************************************************)
(* The schema routes' answers                                              *)
(***************************************************************************)

SchemaRoutes == {"schemas/find", "schemas/list"}

\* The request of slot r was answered 200 by a schema route; the call it
\* made last was the DESCRIBE of the last table of the answer.
Described(r) ==
    /\ Handled(r) /\ req[r].ep \in SchemaRoutes /\ Answered(r, 200)
    /\ exec[r].phase = "returned" /\ isArray(exec[r].out.v)

\* The columns of that table as the database gave them, and the fields
\* mapping the answer holds for it, as a list of <<name, FieldSchema>>.
ColumnsOf(r) == exec[r].out.v.v
SchemasOf(r) == Get(resp[r][1].body, "schemas").v
FieldsMapped(r) == Get(SchemasOf(r)[Len(SchemasOf(r))], "fields").v

\* The entries of the mapping made from a column: those that show the
\* column's native name.
EntriesFor(r, column) ==
    {i \in 1..Len(FieldsMapped(r)) :
        Get(FieldsMapped(r)[i][2], "displayName") = Get(column, "Field")}

\* The classification with the numeric, date and boolean rules ahead of the
\* text rule.
HasAny(name, subs) == \E sub \in subs : includes(toLowerCase(name), Chars(sub))
NumericThenDateThenBoolean(name) ==
    IF HasAny(name, {"int", "float", "double", "decimal"}) THEN "number"
    ELSE IF HasAny(name, {"date", "time"}) THEN "datetime"
    ELSE IF HasAny(name, {"bool"}) THEN "boolean"
    ELSE IF HasAny(name, {"varchar", "text", "char"}) THEN "text"
    ELSE "any"

\* A native type name in which a text word and a date, decimal or boolean
\* word both occur.
MixedTypeName(name) ==
    /\ HasAny(name, {"varchar", "text", "char"})
    /\ HasAny(name, {"date", "time", "float", "double", "decimal", "bool"})

TypeOfColumn(column) == ToStr(Get(column, "Type"))

\* C14: the type a schema answer gives a column is number when the lowercased
\* native type name contains int, float, double or decimal, else datetime
\* when it contains date or time, else boolean when it contains bool, else
\* text when it contains varchar, text or char, else any; so a name with a
\* date, time, float, double, decimal or bool word in it is never text.
C14_NumericDateBooleanBeforeText ==
    \A r \in Slots :
        Described(r) =>
            \A i \in 1..Len(ColumnsOf(r)) : \A e \in EntriesFor(r, ColumnsOf(r)[i]) :
                /\ Get(FieldsMapped(r)[e][2], "type")
                      = Str(NumericThenDateThenBoolean(TypeOfColumn(ColumnsOf(r)[i])))
                /\ HasAny(TypeOfColumn(ColumnsOf(r)[i]),
                          {"date", "time", "float", "double", "decimal", "bool"})
                      => Get(FieldsMapped(r)[e][2], "type") # Str("text")

\* The same for every type name that does not mix a text word with a date,
\* decimal or boolean word.
C14_UnmixedTypeNames ==
    \A r \in Slots :
        Described(r) =>
            \A i \in 1..Len(ColumnsOf(r)) : \A e \in EntriesFor(r, ColumnsOf(r)[i]) :
                ~MixedTypeName(TypeOfColumn(ColumnsOf(r)[i])) =>
                    Get(FieldsMapped(r)[e][2], "type")
                        = Str(NumericThenDateThenBoolean(TypeOfColumn(ColumnsOf(r)[i])))

\* A schema answer gives type text to a column whose type name holds the
\* word date.
C14_DateWordClassifiedText ==
    \E r \in Slots :
        /\ Described(r)
        /\ \E i \in 1..Len(ColumnsOf(r)) : \E e \in EntriesFor(r, ColumnsOf(r)[i]) :
              /\ HasAny(TypeOfColumn(ColumnsOf(r)[i]), {"date"})
              /\ Get(FieldsMapped(r)[e][2], "type") = Str("text")

\* The FieldSchema at place e of the answer's mapping states the column's
\* required and unique flags.
FlagsStated(r, column, e) ==
    /\ Get(FieldsMapped(r)[e][2], "required") = Bool(Get(column, "Null") = Str("NO"))
    /\ Get(FieldsMapped(r)[e][2], "unique")
          = Bool(Get(column, "Key") \in {Str("PRI"), Str("UNI")})

\* C15: on both schema routes the FieldSchema made from a column has
\* required true exactly when the column's Null is "NO" and unique true
\* exactly when its Key is PRI or UNI; the column {Field: "age", Type:
\* "int(11)", Null: "NO", Key: ""} gives type number, required true, unique
\* false.
C15_RequiredAndUnique ==
    \A r \in Slots :
        Described(r) =>
            \A i \in 1..Len(ColumnsOf(r)) : \A e \in EntriesFor(r, ColumnsOf(r)[i]) :
                /\ FlagsStated(r, ColumnsOf(r)[i], e)
                /\ ColumnsOf(r)[i] = ColumnAge =>
                      /\ Get(FieldsMapped(r)[e][2], "type") = Str("number")
                      /\ Get(FieldsMapped(r)[e][2], "required") = Bool(TRUE)
                      /\ Get(FieldsMapped(r)[e][2], "unique") = Bool(FALSE)

\* The same on schemas/list alone.
C15_OnSchemasList ==
    \A r \in Slots :
        (Described(r) /\ req[r].ep = "schemas/list") =>
            \A i \in 1..Len(ColumnsOf(r)) : \A e \in EntriesFor(r, ColumnsOf(r)[i]) :
                /\ FlagsStated(r, ColumnsOf(r)[i], e)
                /\ ColumnsOf(r)[i] = ColumnAge =>
                      /\ Get(FieldsMapped(r)[e][2], "type") = Str("number")
                      /\ Get(FieldsMapped(r)[e][2], "required") = Bool(TRUE)
                      /\ Get(FieldsMapped(r)[e][2], "unique") = Bool(FALSE)

\* On schemas/find the required flag alone is stated as claimed.
C15_RequiredOnSchemasFind ==
    \A r \in Slots :
        (Described(r) /\ req[r].ep = "schemas/find") =>
            \A i \in 1..Len(ColumnsOf(r)) : \A e \in EntriesFor(r, ColumnsOf(r)[i]) :
                Get(FieldsMapped(r)[e][2], "required")
                    = Bool(Get(ColumnsOf(r)[i], "Null") = Str("NO"))

\* schemas/find has answered with the FieldSchema of a unique-key column, and
\* it has no unique property.
C15_UniqueAbsentOnSchemasFind ==
    \E r \in Slots :
        /\ Described(r) /\ req[r].ep = "schemas/find"
        /\ \E i \in 1..Len(ColumnsOf(r)) : \E e \in EntriesFor(r, ColumnsOf(r)[i]) :
              /\ ColumnsOf(r)[i] = ColumnEmail
              /\ ~Has(FieldsMapped(r)[e][2], "unique")

\* The answer's mapping for the last table, and whether a column is flagged
\* as primary key.
FieldsObject(r) == Get(SchemasOf(r)[Len(SchemasOf(r))], "fields")
IsPrimary(column) == Get(column, "Key") = Str("PRI")
FieldOf(column) == ToStr(Get(column, "Field"))
HasField(fields, name) == indexOf(Keys(fields), name) >= 0

\* The column is in the mapping where it belongs: a primary-key column under
\* _id and not under its native name, any other under its native name, and
\* the entry there shows the column's native name.
PlacedAsClaimed(r, column) ==
    IF IsPrimary(column)
    THEN /\ Get(Get(FieldsObject(r), "_id"), "displayName") = Get(column, "Field")
         /\ FieldOf(column) # Chars("_id") => ~HasField(FieldsObject(r), FieldOf(column))
    ELSE Get(GetC(FieldsObject(r), FieldOf(column)), "displayName") = Get(column, "Field")

\* C16: in a schema answer every primary-key column is under _id (its native
\* name kept as display name) and not under its native name, every other
\* column is under its native name, and so every column of the table has its
\* entry, composite primary keys and a non-primary column named _id included.
C16_PrimaryKeyAsIdNoneLost ==
    \A r \in Slots :
        Described(r) =>
            \A i \in 1..Len(ColumnsOf(r)) :
                /\ PlacedAsClaimed(r, ColumnsOf(r)[i])
                /\ EntriesFor(r, ColumnsOf(r)[i]) # {}

\* A column list with at most one primary-key column and no other column
\* named _id.
OneIdentifier(columns) ==
    /\ Cardinality({i \in 1..Len(columns) : IsPrimary(columns[i])}) <= 1
    /\ \A i \in 1..Len(columns) : FieldOf(columns[i]) = Chars("_id") => IsPrimary(columns[i])

\* On schemas/list the placement holds for every such column list.
C16_OnSchemasListOneIdentifier ==
    \A r \in Slots :
        (Described(r) /\ req[r].ep = "schemas/list" /\ OneIdentifier(ColumnsOf(r))) =>
            \A i \in 1..Len(ColumnsOf(r)) :
                /\ PlacedAsClaimed(r, ColumnsOf(r)[i])
                /\ EntriesFor(r, ColumnsOf(r)[i]) # {}

\* schemas/list has answered for a table with a composite primary key and
\* the mapping has no entry made from the key's first column.
C16_ColumnLost ==
    \E r \in Slots :
        /\ Described(r) /\ req[r].ep = "schemas/list"
        /\ ColumnsOf(r) = <<ColumnId, ColumnPart>>
        /\ EntriesFor(r, ColumnId) = {}
        /\ Len(FieldsMapped(r)) = 1

\* schemas/find has answered for a table with a primary key and the key's
\* column is under its native name.
C16_PrimaryKeyNotRenamed ==
    \E r \in Slots :
        /\ Described(r) /\ req[r].ep = "schemas/find"
        /\ ColumnsOf(r) = <<ColumnId, ColumnName>>
        /\ HasField(FieldsObject(r), Chars("id"))
        /\ Get(Get(FieldsObject(r), "_id"), "displayName") = Str("_id")

\* schemas/find has finished a request that names at least one table.
TablesNamed(r) ==
    /\ Handled(r) /\ req[r].ep = "schemas/find" /\ pc[r] = "done"
    /\ isArray(req[r].schemaIds) /\ Len(req[r].schemaIds.v) > 0

\* The table exists in the database.
TableExists(id) == ToStr(id) \notin MissingTables

\* No call of the request failed, unless for a table the database lacks.  A
\* handler makes no further call after one that threw.
OnlyMissingTableFailures(r) ==
    exec[r].phase = "threw" => exec[r].out.e = Err("ER_NO_SUCH_TABLE")

\* The ids of the schemas of the answer, in the answer's order.
SchemaIdsAnswered(r) ==
    [i \in 1..Len(SchemasOf(r)) |-> Get(SchemasOf(r)[i], "id")]

\* C17: schemas/find with a non-empty list skips a named table that does not
\* exist: the answer is 200 with the schemas of exactly the named tables that
\* exist, in request order, wherever the missing table sits in the list.
C17_MissingTableSkipped ==
    \A r \in Slots :
        (TablesNamed(r) /\ OnlyMissingTableFailures(r)) =>
            /\ Answered(r, 200)
            /\ SchemaIdsAnswered(r) = SelectSeq(req[r].schemaIds.v, TableExists)

\* When every named table exists and no call fails, the answer is 200 with
\* the schemas of the named tables in request order.
C17_ExistingTablesInOrder ==
    \A r \in Slots :
        (/\ TablesNamed(r) /\ exec[r].phase # "threw"
         /\ \A i \in 1..Len(req[r].schemaIds.v) : TableExists(req[r].schemaIds.v[i])) =>
            /\ Answered(r, 200)
            /\ SchemaIdsAnswered(r) = req[r].schemaIds.v

\* schemas/find was asked for an existing table and a missing one; the
\* DESCRIBE of the missing one failed and the answer is 500.
C17_MissingTableAnswered500 ==
    \E r \in Slots :
        /\ TablesNamed(r)
        /\ req[r].schemaIds.v = <<Str("t"), Str("gone")>>
        /\ Len(calls[r]) = 2
        /\ exec[r].phase = "threw" /\ exec[r].out.e = Err("ER_NO_SUCH_TABLE")
        /\ Answered(r, 500)

(***************************************************************************)
(* Failures of the database call                                           *)
(***************************************************************************)

\* The request of slot r is over and the call it made last threw: the
\* connection could not be had or the statement failed.
ExecutorFailed(r) == Handled(r) /\ pc[r] = "done" /\ exec[r].phase = "threw"

\* The answer is the generic one and nothing more.
GenericAnswer(r) ==
    /\ Answered(r, 500)
    /\ resp[r][1].body = Obj1("error", Str(MsgInternal))

\* The answer carries the message of the error the call threw.
DetailReturned(r) ==
    \E i \in 1..Len(resp[r][1].body.v) : resp[r][1].body.v[i][2] = StrC(exec[r].out.e.v)

\* C18: on every route, when the executor throws the answer is 500 with a
\* generic message only; 400 is never the answer to an executor failure; and
\* the database error's detail is never in the answer.
C18_ExecutorFailureIsGeneric500 ==
    \A r \in Slots :
        ExecutorFailed(r) =>
            /\ GenericAnswer(r)
            /\ ~Answered(r, 400)
            /\ ~DetailReturned(r)

\* The routes whose catch block neither answers 400 nor adds details.
GenericCatch(r) ==
    \/ req[r].ep \in {"provision", "schemas/find", "schemas/list", "items/find",
                      "items/get", "data/count", "data/insert"}
    \/ req[r].ep = "data/find" /\ tree = "hostinger"

\* On those routes an executor failure is answered as claimed.
C18_OnGenericCatchRoutes ==
    \A r \in Slots :
        (ExecutorFailed(r) /\ GenericCatch(r)) =>
            GenericAnswer(r) /\ ~DetailReturned(r)

\* On the two raw-SQL routes it is answered 400 with the error's message,
\* and on data/find, data/update and data/remove of the current tree 500 with
\* the message as details.
C18_OnOtherRoutes ==
    \A r \in Slots :
        (ExecutorFailed(r) /\ ~GenericCatch(r)) =>
            IF req[r].ep \in {"query", "update"}
            THEN Answered(r, 400)
                 /\ resp[r][1].body = Obj1("error", StrC(exec[r].out.e.v))
            ELSE Answered(r, 500)
                 /\ resp[r][1].body = Obj2("error", Str(MsgInternal),
                                           "details", StrC(exec[r].out.e.v))

\* The statement of a raw query failed in the database and the answer is 400
\* with the database's message.
C18_DetailAnswered400 ==
    \E r \in Slots :
        /\ ExecutorFailed(r) /\ req[r].ep = "query"
        /\ exec[r].executed = 1
        /\ Answered(r, 400) /\ DetailReturned(r)

(***************************************************************************)
(* Round trips per request                                                 *)
(***************************************************************************)

\* The statement counts rows; the statement reads rows.
IsCountQuery(sql) ==
    IsWord(Lex(sql)[1], "SELECT") /\ \E i \in 1..Len(Lex(sql)) : IsWord(Lex(sql)[i], "COUNT")
IsDataQuery(sql) == IsWord(Lex(sql)[1], "SELECT") /\ ~IsCountQuery(sql)

\* The request has made at most two executor calls, and two only as a data
\* query followed by a count query.
AtMostDataAndCount(r) ==
    /\ Len(calls[r]) <= 2
    /\ Len(calls[r]) = 2 =>
          /\ req[r].ep = "data/find"
          /\ IsDataQuery(calls[r][1].sql)
          /\ IsCountQuery(calls[r][2].sql)

\* C19: every request makes at most two executor calls, and makes two only
\* for a data query followed by a separate count query; every other handler
\* makes one or none for every input.
C19_AtMostTwoCalls ==
    \A r \in Slots : Busy(r) => AtMostDataAndCount(r)

\* The same on every route but the two schema routes.
C19_OutsideSchemaRoutes ==
    \A r \in Slots : (Busy(r) /\ req[r].ep \notin SchemaRoutes) => AtMostDataAndCount(r)

\* The calls of a schema request: schemas/find makes one DESCRIBE per name it
\* is given, in turn; schemas/list makes SHOW TABLES and then one DESCRIBE
\* per table listed, in turn.
SchemaCalls(r) ==
    /\ \A i \in 1..Len(calls[r]) :
          IsWord(Lex(calls[r][i].sql)[1],
                 IF req[r].ep = "schemas/list" /\ i = 1 THEN "SHOW" ELSE "DESCRIBE")
    /\ req[r].ep = "schemas/find" =>
          /\ Len(calls[r]) <= (IF isArray(req[r].schemaIds)
                               THEN Len(req[r].schemaIds.v) ELSE 0)
          /\ Described(r) => Len(calls[r]) = Len(req[r].schemaIds.v)
    /\ req[r].ep = "schemas/list" =>
          /\ (pc[r] = "await" /\ loc[r].step = 2) =>
                Len(calls[r]) = 1 + loc[r].i /\ loc[r].i <= Len(loc[r].tables)
          /\ Described(r) => Len(calls[r]) = 1 + Len(SchemasOf(r))

\* Off the schema routes a request makes at most two executor calls, two
\* only as data/find's data query followed by its count query; a schema
\* request makes one call per table, and schemas/list one more before them.
C19_CallsPerRoute ==
    \A r \in Slots :
        Busy(r) => IF req[r].ep \in SchemaRoutes THEN SchemaCalls(r)
                   ELSE AtMostDataAndCount(r)

\* data/find has answered with a total count after a data query and a count
\* query.
C19_DataAndCount ==
    \E r \in Slots :
        /\ Handled(r) /\ req[r].ep = "data/find" /\ Answered(r, 200)
        /\ Len(calls[r]) = 2
        /\ Has(resp[r][1].body, "totalCount")

\* schemas/list has answered after three executor calls: SHOW TABLES and the
\* DESCRIBE of each of two tables.
C19_ThreeCalls ==
    \E r \in Slots :
        /\ Described(r) /\ req[r].ep = "schemas/list"
        /\ Len(calls[r]) = 3
        /\ IsWord(Lex(calls[r][1].sql)[1], "SHOW")
        /\ IsWord(Lex(calls[r][2].sql)[1], "DESCRIBE")
        /\ IsWord(Lex(calls[r][3].sql)[1], "DESCRIBE")

(***************************************************************************)
(* Connections under concurrent requests                                   *)
(***************************************************************************)

\* The call of slot r is in progress; it holds a connection: it has acquired
\* one and its finally block has not run yet.
InProgress(r) == exec[r].phase \in {"acquire", "execute", "finally"}
Holding(r) == exec[r].phase \in {"execute", "finally"} /\ exec[r].conn # 0

CountAsked(r) ==
    /\ Handled(r) /\ req[r].ep = "data/find" /\ Answered(r, 200)
    /\ Truthy(req[r].returnTotalCount)

\* C21: in both trees, a data/find request that sets returnTotalCount and is
\* answered 200 gets a body with a totalCount property, whatever the result
\* set, an empty one included.
C21_TotalCountWhenAsked ==
    \A r \in Slots : CountAsked(r) => Has(resp[r][1].body, "totalCount")

\* The same in the hostinger tree, and in the current tree when the data
\* query returned rows: then the count query was made and its count is in
\* the body.
C21_UnlessEmptyInCurrentTree ==
    \A r \in Slots :
        (CountAsked(r) /\ (tree = "hostinger" \/ Get(resp[r][1].body, "items") # Arr(<<>>))) =>
            /\ Has(resp[r][1].body, "totalCount")
            /\ Len(calls[r]) = 2

\* The current tree has answered 200 with no rows and no totalCount, after
\* the data query alone, to a request that asked for the total count.
C21_EmptyWithoutTotalCount ==
    \E r \in Slots :
        /\ CountAsked(r) /\ tree = "current"
        /\ Len(calls[r]) = 1
        /\ resp[r][1].body = Obj1("items", Arr(<<>>))

(***************************************************************************)
(* One response per request                                                *)
(***************************************************************************)

\* The request of slot r is on its way: at the gate, in its handler or
\* awaiting a call.  It has been answered.
Pending(r) == pc[r] \in {"gate", "handler", "await"}
Responded(r) == pc[r] = "done" /\ Len(resp[r]) = 1

\* The handler of slot r is due to run: from its start, or on from an await
\* whose call has settled.
HandlerDue(r) ==
    pc[r] = "handler" \/ (pc[r] = "await" /\ exec[r].phase \in {"returned", "threw"})

\* What the handler does when it runs next, its catch block included: the
\* response it sends, the call it awaits, or an exception nothing catches.
HandlerEffect(r) ==
    LET b == req[r]
        start == pc[r] = "handler"
        out == Outcome(r)
    IN  CASE b.ep = "provision" -> CatchGeneric(provisionBody(b), MsgInternal)
          [] b.ep = "query" ->
               CatchMessage(IF start THEN rawSqlBody(b) ELSE apiQueryAfter(out))
          [] b.ep = "update" ->
               CatchMessage(IF start THEN rawSqlBody(b) ELSE apiUpdateAfter(out))
          [] b.ep = "schemas/find" ->
               CatchGeneric(IF start THEN schemasFindBody(b)
                            ELSE schemasFindAfter(b, loc[r], out), MsgInternal)
          [] b.ep = "schemas/list" ->
               CatchGeneric(IF start THEN schemasListBody
                            ELSE schemasListAfter(loc[r], out), MsgInternal)
          [] b.ep = "items/find" ->
               CatchGeneric(IF start THEN itemsFindBody(b) ELSE itemsFindAfter(out),
                            MsgInternal)
          [] b.ep = "items/get" ->
               CatchGeneric(IF start THEN itemsGetBody(b) ELSE itemsGetAfter(out),
                            MsgInternal)
          [] b.ep = "data/count" ->
               CatchGeneric(IF start THEN dataCountBody(b) ELSE dataCountAfter(out),
                            MsgInternal)
          [] b.ep = "data/insert" ->
               CatchGeneric(IF start THEN dataInsertBody(b) ELSE dataInsertAfter(out),
                            MsgInternal)
          [] b.ep = "data/find" ->
               dataFindCatch(IF start THEN dataFindBody(tree, b)
                             ELSE dataFindAfter(tree, b, loc[r], out))
          [] b.ep = "data/update" ->
               CatchDetails(IF start THEN dataUpdateBody(b) ELSE dataUpdateAfter(out),
                            MsgInternal)
          [] b.ep = "data/remove" ->
               CatchDetails(IF start THEN dataRemoveBody(b) ELSE dataRemoveAfter(out),
                            MsgInternal)

\* A request on its way has no response yet, one that is over has exactly
\* one, and a call in progress belongs to a request still awaiting it.
OneResponseAtMost ==
    \A r \in Slots :
        /\ Pending(r) => Len(resp[r]) = 0
        /\ pc[r] = "done" => Len(resp[r]) = 1
        /\ exec[r].phase \in {"acquire", "execute", "finally"} => pc[r] = "await"

\* A request on its way can always be taken a step further: the gate answers
\* or lets through; a handler that is due sends a response or awaits a call,
\* no exception leaving it uncaught; a call that is in progress can acquire
\* or fail to, can have its statement return or fail, and can run finally.
NeverStuck ==
    \A r \in Slots :
        Pending(r) =>
            \/ pc[r] = "gate"
            \/ HandlerDue(r) /\ HandlerEffect(r).t \in {"reply", "call"}
            \/ pc[r] = "await" /\ exec[r].phase \in {"acquire", "finally"}
            \/ /\ pc[r] = "await" /\ exec[r].phase = "execute"
               /\ DbResults(exec[r].sql, exec[r].params)
                     \cup DbErrors(exec[r].sql, exec[r].params) # {}

\* How many steps a request can still need at most: five for each call it
\* may yet make, and the steps left of the call in progress.
StepsLeft(r) ==
    IF pc[r] = "gate" THEN 5 * (MaxTables + 1) + 5
    ELSE IF pc[r] = "handler" THEN 5 * (MaxTables + 1) + 4
    ELSE IF pc[r] = "await"
    THEN 5 * (MaxTables + 1 - Len(calls[r]))
         + (CASE exec[r].phase = "acquire" -> 4
              [] exec[r].phase = "execute" -> 3
              [] exec[r].phase = "finally" -> 2
              [] OTHER -> 1)
    ELSE 0

\* A step taken for the request of slot r.
Served(r) == Pending(r) /\ (pc'[r] # pc[r] \/ exec'[r] # exec[r])

\* Once a request is answered nothing more is done for it: no response, no
\* executeQuery call, no step of a call, until the request is dropped.
NothingAfterResponse ==
    \A r \in Slots :
        Len(resp[r]) = 1 =>
            \/ resp'[r] = resp[r] /\ calls'[r] = calls[r] /\ exec'[r] = exec[r]
            \/ pc'[r] = "idle" /\ resp'[r] = <<>>

\* A handler that runs does what HandlerEffect says and nothing else: it
\* sends that one response and is over, or it starts that one call.
HandlerSendsOrAwaits ==
    \A r \in Slots :
        (HandlerDue(r) /\ Served(r)) =>
            IF HandlerEffect(r).t = "reply"
            THEN /\ pc'[r] = "done" /\ calls'[r] = calls[r]
                 /\ resp'[r] = <<[status |-> HandlerEffect(r).status,
                                  body |-> HandlerEffect(r).body]>>
            ELSE /\ HandlerEffect(r).t = "call"
                 /\ pc'[r] = "await" /\ resp'[r] = <<>>
                 /\ calls'[r] = Append(calls[r], [sql |-> HandlerEffect(r).sql,
                                                  params |-> HandlerEffect(r).params])

\* Every step taken for a request leaves it fewer steps to go, and never
\* fewer than none: no request is served for ever.
ServedTowardsResponse ==
    \A r \in Slots :
        Served(r) => StepsLeft(r)' < StepsLeft(r) /\ StepsLeft(r)' >= 0

\* C22: every request gets exactly one response.  On every path of the gate
\* and of every handler a response is sent once, and no response and no
\* database call follows it; and every request is answered in the end, each
\* database call returning or failing in the end: a request on its way can
\* always be served a step further, and each step leaves it fewer to go.
C22_ExactlyOneResponse ==
    /\ [](OneResponseAtMost /\ NeverStuck)
    /\ [][NothingAfterResponse /\ HandlerSendsOrAwaits /\ ServedTowardsResponse]_vars

\* A request has been answered, once, after its second database call failed.
C22_Witness ==
    \E r \in Slots :
        /\ Responded(r) /\ Handled(r)
        /\ Len(calls[r]) = 2 /\ exec[r].phase = "threw"
        /\ resp[r][1].status = 500

====
